---- MODULE Spec2Model ----
(***************************************************************************)
(* Replicated in-memory key-value cache: the store with TTL expiration and *)
(* pluggable eviction policies, the FSM adapter that drives it from the    *)
(* consensus log, snapshot/restore, and the request gateway.               *)
(***************************************************************************)
EXTENDS Integers, Sequences, FiniteSets, TLC

\* ------------------------------------------------------------------------
\* Bounds of the model
\* ------------------------------------------------------------------------
MaxTime == 3
MaxTTL == 1
MaxFreq == 2
MaxPolLen == 2
MaxLog == 2
MaxCalls == 3
MaxWrites == 2
MaxSent == 2
MaxHash == 3
MaxRing == 4
MaxOps == 3

KeySeq == <<"a", "b">>
Keys == {KeySeq[i] : i \in 1..Len(KeySeq)}
Values == {"v1", "v2"}
TTLs == (0 - 1)..MaxTTL
Kinds == {"lru", "fifo", "lfu", "random", "nil"}
Capacities == {0, 1}

\* Go's empty string: SelectVictim's "no victim", Get's value when absent.
NoKey == ""

\* ------------------------------------------------------------------------
\* Maps with a varying key set (Go map[string]*Item)
\* ------------------------------------------------------------------------
EmptyMap == [k \in {} |-> 0]

MapPut(m, k, x) == [y \in (DOMAIN m) \cup {k} |-> IF y = k THEN x ELSE m[y]]

MapDelete(m, k) == [y \in (DOMAIN m) \ {k} |-> m[y]]

ElemsOf(s) == {s[i] : i \in 1..Len(s)}

SeqWithout(s, k) == SelectSeq(s, LAMBDA x : x # k)

\* ------------------------------------------------------------------------
\* LRU policy: order is the list front..back
\* ------------------------------------------------------------------------
\* OnAccess that leaves the list as it is.
LRUOnAccessStill(order, key) == order

LRUOnAccess(order, key) ==
    IF key \in ElemsOf(order) THEN <<key>> \o SeqWithout(order, key) ELSE order

LRUOnAdd(order, key) ==
    IF key \in ElemsOf(order) THEN <<key>> \o SeqWithout(order, key)
    ELSE <<key>> \o order

LRUOnRemove(order, key) == SeqWithout(order, key)

LRUSelectVictim(order) == IF Len(order) > 0 THEN order[Len(order)] ELSE NoKey

\* ------------------------------------------------------------------------
\* FIFO policy: order is the list front..back, oldest at the front
\* ------------------------------------------------------------------------
FIFOOnAccess(order, key) == order

\* OnAdd that sends a key it already holds to the back.
FIFOOnAddRequeue(order, key) == Append(SeqWithout(order, key), key)

FIFOOnAdd(order, key) ==
    IF key \in ElemsOf(order) THEN order ELSE Append(order, key)

FIFOOnRemove(order, key) == SeqWithout(order, key)

FIFOSelectVictim(order) == IF Len(order) > 0 THEN order[1] ELSE NoKey

\* ------------------------------------------------------------------------
\* Random policy: items is a slice, duplicates are not filtered by OnAdd
\* ------------------------------------------------------------------------
RandomOnAccess(items, key) == items

RandomOnAdd(items, key) == Append(items, key)

FirstIndex(items, key) ==
    CHOOSE i \in 1..Len(items) :
        items[i] = key /\ \A j \in 1..(i - 1) : items[j] # key

RandomOnRemove(items, key) ==
    IF key \in ElemsOf(items)
    THEN LET i == FirstIndex(items, key)
             lastIdx == Len(items)
         IN SubSeq([items EXCEPT ![i] = items[lastIdx]], 1, lastIdx - 1)
    ELSE items

\* rnd.Intn(len(items)) can name any slot.
RandomSelectVictim(items) == IF Len(items) = 0 THEN {NoKey} ELSE ElemsOf(items)

\* ------------------------------------------------------------------------
\* LFU policy: pq is the binary min-heap of container/heap, 1-based here
\* ------------------------------------------------------------------------
Less(pq, i, j) == pq[i].frequency < pq[j].frequency

Swap(pq, i, j) == [pq EXCEPT ![i] = pq[j], ![j] = pq[i]]

RECURSIVE up(_, _)
up(pq, j) ==
    LET i == j \div 2
    IN IF i < 1 \/ ~Less(pq, j, i) THEN pq ELSE up(Swap(pq, i, j), i)

\* down returns the heap and the slot the element ended in.
RECURSIVE down(_, _, _)
down(pq, i, n) ==
    LET j1 == 2 * i
        j2 == j1 + 1
        j == IF j2 <= n /\ Less(pq, j2, j1) THEN j2 ELSE j1
    IN IF j1 > n THEN <<pq, i>>
       ELSE IF ~Less(pq, j, i) THEN <<pq, i>>
       ELSE down(Swap(pq, i, j), j, n)

HeapFix(pq, i) ==
    LET d == down(pq, i, Len(pq))
    IN IF d[2] > i THEN d[1] ELSE up(pq, i)

HeapPush(pq, item) == up(Append(pq, item), Len(pq) + 1)

HeapRemove(pq, i) ==
    LET n == Len(pq)
    IN IF n # i
       THEN LET sw == Swap(pq, i, n)
                d == down(sw, i, n - 1)
                fixed == IF d[2] > i THEN d[1] ELSE up(sw, i)
            IN SubSeq(fixed, 1, n - 1)
       ELSE SubSeq(pq, 1, n - 1)

LFUKeys(pq) == {pq[i].key : i \in 1..Len(pq)}

LFUIndex(pq, key) == CHOOSE i \in 1..Len(pq) : pq[i].key = key

LFUFrequency(pq, key) == pq[LFUIndex(pq, key)].frequency

\* OnAccess without heap.Fix.
LFUOnAccessNoFix(pq, key) ==
    IF key \in LFUKeys(pq)
    THEN [pq EXCEPT ![LFUIndex(pq, key)].frequency = @ + 1]
    ELSE pq

LFUOnAccess(pq, key) ==
    IF key \in LFUKeys(pq)
    THEN LET i == LFUIndex(pq, key)
         IN HeapFix([pq EXCEPT ![i].frequency = @ + 1], i)
    ELSE pq

LFUOnAdd(pq, key) ==
    IF key \in LFUKeys(pq)
    THEN LET i == LFUIndex(pq, key)
         IN HeapFix([pq EXCEPT ![i].frequency = @ + 1], i)
    ELSE HeapPush(pq, [key |-> key, frequency |-> 1])

LFUOnRemove(pq, key) ==
    IF key \in LFUKeys(pq) THEN HeapRemove(pq, LFUIndex(pq, key)) ELSE pq

LFUSelectVictim(pq) == IF Len(pq) = 0 THEN NoKey ELSE pq[1].key

\* ------------------------------------------------------------------------
\* EvictionPolicy interface: pol = [kind, order, pq]
\* ------------------------------------------------------------------------
NewPolicy(kind) == [kind |-> kind, order |-> <<>>, pq |-> <<>>]

OnAccess(pol, key) ==
    CASE pol.kind = "lru" -> [pol EXCEPT !.order = LRUOnAccess(@, key)]
      [] pol.kind = "fifo" -> [pol EXCEPT !.order = FIFOOnAccess(@, key)]
      [] pol.kind = "random" -> [pol EXCEPT !.order = RandomOnAccess(@, key)]
      [] pol.kind = "lfu" -> [pol EXCEPT !.pq = LFUOnAccess(@, key)]
      [] OTHER -> pol

OnAdd(pol, key) ==
    CASE pol.kind = "lru" -> [pol EXCEPT !.order = LRUOnAdd(@, key)]
      [] pol.kind = "fifo" -> [pol EXCEPT !.order = FIFOOnAdd(@, key)]
      [] pol.kind = "random" -> [pol EXCEPT !.order = RandomOnAdd(@, key)]
      [] pol.kind = "lfu" -> [pol EXCEPT !.pq = LFUOnAdd(@, key)]
      [] OTHER -> pol

OnRemove(pol, key) ==
    CASE pol.kind = "lru" -> [pol EXCEPT !.order = LRUOnRemove(@, key)]
      [] pol.kind = "fifo" -> [pol EXCEPT !.order = FIFOOnRemove(@, key)]
      [] pol.kind = "random" -> [pol EXCEPT !.order = RandomOnRemove(@, key)]
      [] pol.kind = "lfu" -> [pol EXCEPT !.pq = LFUOnRemove(@, key)]
      [] OTHER -> pol

\* The set of keys SelectVictim may return (one key unless the policy is Random).
SelectVictim(pol) ==
    CASE pol.kind = "lru" -> {LRUSelectVictim(pol.order)}
      [] pol.kind = "fifo" -> {FIFOSelectVictim(pol.order)}
      [] pol.kind = "random" -> RandomSelectVictim(pol.order)
      [] pol.kind = "lfu" -> {LFUSelectVictim(pol.pq)}
      [] OTHER -> {NoKey}

\* Keys the policy holds a candidate for.
Tracked(pol) == IF pol.kind = "lfu" THEN LFUKeys(pol.pq) ELSE ElemsOf(pol.order)

\* The model's bound on the policy's counters and slice length.
PolicyInBounds(pol) ==
    /\ Len(pol.order) <= MaxPolLen
    /\ \A i \in 1..Len(pol.pq) : pol.pq[i].frequency <= MaxFreq

\* ------------------------------------------------------------------------
\* Store: s = [items, capacity, policy]; an Item is [value, expiration]
\* ------------------------------------------------------------------------
New(capacity, kind) ==
    [items |-> EmptyMap, capacity |-> capacity, policy |-> NewPolicy(kind)]

\* Expired with the deadline itself counted as passed.
ExpiredAtDeadline(item, t) == item.expiration > 0 /\ t >= item.expiration

\* Get's and deleteExpired's test: the item's expiration time has passed.
Expired(item, t) == item.expiration > 0 /\ t > item.expiration

\* Get's return value (value, found).
GetResult(s, key, t) ==
    IF key \notin DOMAIN s.items THEN [value |-> "", found |-> FALSE]
    ELSE IF Expired(s.items[key], t) THEN [value |-> "", found |-> FALSE]
    ELSE [value |-> s.items[key].value, found |-> TRUE]

GetTouchesExpired(s, key, t) ==
    IF key \in DOMAIN s.items
    THEN [s EXCEPT !.policy = OnAccess(@, key)]
    ELSE s

\* Get's effect on the store: OnAccess on a hit, nothing otherwise.
Get(s, key, t) ==
    IF GetResult(s, key, t).found
    THEN [s EXCEPT !.policy = OnAccess(@, key)]
    ELSE s

deleteInternal(s, key) ==
    IF key \in DOMAIN s.items
    THEN [s EXCEPT !.items = MapDelete(@, key), !.policy = OnRemove(@, key)]
    ELSE s

Delete(s, key) == deleteInternal(s, key)

MustEvictNoFloor(s) ==
    /\ Cardinality(DOMAIN s.items) >= s.capacity
    /\ s.policy.kind # "nil"

\* Set's eviction test for a key that is not resident.
MustEvict(s) ==
    /\ s.capacity > 0
    /\ Cardinality(DOMAIN s.items) >= s.capacity
    /\ s.policy.kind # "nil"

\* What SelectVictim may hand to a Set of key (NoKey when Set does not ask).
VictimChoices(s, key) ==
    IF key \notin DOMAIN s.items /\ MustEvict(s)
    THEN SelectVictim(s.policy)
    ELSE {NoKey}

\* Set's expiration for a ttl read at time t.
SetExpiration(ttl, t) == IF ttl > 0 THEN t + ttl ELSE 0

SetKeepsDeadline(s, key, value, ttl, t, victim) ==
    LET s1 == IF key \in DOMAIN s.items
              THEN [s EXCEPT !.policy = OnAccess(@, key)]
              ELSE LET s0 == IF MustEvict(s) /\ victim # NoKey
                             THEN deleteInternal(s, victim)
                             ELSE s
                   IN [s0 EXCEPT !.policy = OnAdd(@, key)]
    IN [s1 EXCEPT !.items =
            MapPut(@, key, [value |-> value,
                            expiration |-> IF key \in DOMAIN s.items
                                           THEN s.items[key].expiration
                                           ELSE SetExpiration(ttl, t)])]

Set(s, key, value, ttl, t, victim) ==
    LET s1 == IF key \in DOMAIN s.items
              THEN [s EXCEPT !.policy = OnAccess(@, key)]
              ELSE LET s0 == IF MustEvict(s) /\ victim # NoKey
                             THEN deleteInternal(s, victim)
                             ELSE s
                   IN [s0 EXCEPT !.policy = OnAdd(@, key)]
    IN [s1 EXCEPT !.items =
            MapPut(@, key, [value |-> value, expiration |-> SetExpiration(ttl, t)])]

deleteExpired(s, t) ==
    [s EXCEPT !.items =
        [k \in {x \in DOMAIN s.items : ~Expired(s.items[x], t)} |-> s.items[k]]]

\* A Go string whose bytes are not valid UTF-8, and the text encoding/json
\* writes for it: every invalid byte becomes the replacement rune U+FFFD.
InvalidBytes == "\\xff"

ReplacementRune == "\\ufffd"

ToValidUTF8(text) == IF text = InvalidBytes THEN ReplacementRune ELSE text

\* json.Encoder on map[string]*Item: one member per key, keys in sorted
\* order, strings coerced to valid UTF-8.
JsonEncode(items) ==
    LET ks == SelectSeq(KeySeq, LAMBDA k : k \in DOMAIN items)
    IN [i \in 1..Len(ks) |->
            [key |-> ToValidUTF8(ks[i]), value |-> ToValidUTF8(items[ks[i]].value),
             expiration |-> items[ks[i]].expiration]]

\* json.Decoder into an existing map: every member of the object is stored
\* under its key; entries of the map that the object does not name are kept.
RECURSIVE JsonDecodeInto(_, _)
JsonDecodeInto(items, blob) ==
    IF Len(blob) = 0 THEN items
    ELSE JsonDecodeInto(
            MapPut(items, blob[1].key,
                   [value |-> blob[1].value, expiration |-> blob[1].expiration]),
            Tail(blob))

Snapshot(s) == JsonEncode(s.items)

Restore(s, blob) == [s EXCEPT !.items = JsonDecodeInto(@, blob)]

BlobKeys(blob) == {blob[i].key : i \in 1..Len(blob)}

\* ------------------------------------------------------------------------
\* Command codec shared by the gateway and the FSM (encoding/json)
\* ------------------------------------------------------------------------
SetOp == "SET"

DeleteOp == "DELETE"

Command(op, key, value, ttl) == [op |-> op, key |-> key, value |-> value, ttl |-> ttl]

\* The decimal text of a duration.
Decimal == [n \in (0 - 1)..9 |->
    CASE n = 0 - 1 -> "-1" [] n = 0 -> "0" [] n = 1 -> "1" [] n = 2 -> "2"
      [] n = 3 -> "3" [] n = 4 -> "4" [] n = 5 -> "5" [] n = 6 -> "6"
      [] n = 7 -> "7" [] n = 8 -> "8" [] OTHER -> "9"]

IsDecimal(text) == \E n \in DOMAIN Decimal : Decimal[n] = text

\* The number a ttl member holds; a member that is not an integer leaves the
\* field at zero.
ParseInt(text) ==
    IF IsDecimal(text) THEN CHOOSE n \in DOMAIN Decimal : Decimal[n] = text ELSE 0

\* json.Marshal(Command): member names and values in field order, strings
\* coerced to valid UTF-8; value and ttl carry omitempty.
Marshal(c) ==
    <<"op", c.op, "key", ToValidUTF8(c.key)>>
        \o (IF c.value # "" THEN <<"value", ToValidUTF8(c.value)>> ELSE <<>>)
        \o (IF c.ttl # 0 THEN <<"ttl", Decimal[c.ttl]>> ELSE <<>>)

\* The text of member name in data, or absent.
RECURSIVE Member(_, _, _)
Member(data, name, absent) ==
    IF Len(data) < 2 THEN absent
    ELSE IF data[1] = name THEN data[2]
    ELSE Member(SubSeq(data, 3, Len(data)), name, absent)

\* A decoder that does not read the ttl member.
UnmarshalNoTTL(data) ==
    [op |-> Member(data, "op", ""),
     key |-> Member(data, "key", ""),
     value |-> Member(data, "value", ""),
     ttl |-> 0]

\* json.Unmarshal into a zero Command: a member that is absent leaves the
\* field at its zero value.
Unmarshal(data) ==
    [op |-> Member(data, "op", ""),
     key |-> Member(data, "key", ""),
     value |-> Member(data, "value", ""),
     ttl |-> ParseInt(Member(data, "ttl", "0"))]

\* The error json.Unmarshal returns: the text ends inside a member, or the
\* ttl member is not an integer.
UnmarshalError(data) ==
    IF Len(data) % 2 # 0 THEN "unexpected end of JSON input"
    ELSE IF ~IsDecimal(Member(data, "ttl", "0")) THEN "cannot unmarshal into Command.ttl"
    ELSE "nil"

\* ------------------------------------------------------------------------
\* FSM adapter
\* ------------------------------------------------------------------------
\* What SelectVictim may hand to the Set that Apply of data performs.
ApplyVictims(s, data) ==
    IF UnmarshalError(data) = "nil" /\ Unmarshal(data).op = SetOp
    THEN VictimChoices(s, Unmarshal(data).key)
    ELSE {NoKey}

\* An Apply that goes on with the command after a decoding error.
ApplyLenient(s, data, t, victim) ==
    LET c == Unmarshal(data)
    IN CASE c.op = SetOp -> Set(s, c.key, c.value, c.ttl, t, victim)
         [] c.op = DeleteOp -> Delete(s, c.key)
         [] OTHER -> s

\* FSM.Apply: the store after the entry is applied at time t.
Apply(s, data, t, victim) ==
    LET c == Unmarshal(data)
    IN IF UnmarshalError(data) # "nil" THEN s
       ELSE CASE c.op = SetOp -> Set(s, c.key, c.value, c.ttl, t, victim)
              [] c.op = DeleteOp -> Delete(s, c.key)
              [] OTHER -> s

\* FSM.Apply: the value it returns.
ApplyResult(data) ==
    IF UnmarshalError(data) # "nil" THEN "failed to unmarshal command"
    ELSE IF Unmarshal(data).op \in {SetOp, DeleteOp} THEN "nil"
    ELSE "unknown command op"

\* FSM.Snapshot followed by Snapshot.Persist: the bytes written to the sink.
Persist(s) == Snapshot(s)

\* No snapshot handle yet: index is the number of entries applied when
\* FSM.Snapshot was called and atCall the encoding of the store at that
\* moment.
NoHandle == [taken |-> FALSE, released |-> FALSE, index |-> 0, atCall |-> <<>>]

\* A sink nothing was written to: what it received, how it was ended,
\* whether the write succeeded and what Persist returned.
NoSink == [bytes |-> <<>>, closed |-> FALSE, cancelled |-> FALSE, wrote |-> FALSE,
           err |-> "none"]

\* A Persist that returns the write error without cancelling the sink.
PersistNoCancel(s, writeErr, closeErr, n) ==
    IF writeErr = "nil"
    THEN [bytes |-> Snapshot(s), closed |-> TRUE, cancelled |-> FALSE, wrote |-> TRUE,
          err |-> closeErr]
    ELSE [bytes |-> SubSeq(Snapshot(s), 1, n), closed |-> FALSE, cancelled |-> FALSE,
          wrote |-> FALSE, err |-> writeErr]

\* Snapshot.Persist: the sink after Persist returns, when the write to the
\* sink ends with writeErr (after n members when it fails) and sink.Close
\* returns closeErr.
PersistTo(s, writeErr, closeErr, n) ==
    IF writeErr = "nil"
    THEN [bytes |-> Snapshot(s), closed |-> TRUE, cancelled |-> FALSE, wrote |-> TRUE,
          err |-> closeErr]
    ELSE [bytes |-> SubSeq(Snapshot(s), 1, n), closed |-> FALSE, cancelled |-> TRUE,
          wrote |-> FALSE, err |-> writeErr]

\* FSM.Restore
FSMRestore(s, blob) == Restore(s, blob)

\* ------------------------------------------------------------------------
\* Request gateway and API translators
\* ------------------------------------------------------------------------
\* ServiceImpl.Set / ServiceImpl.Delete: the bytes handed to consensus.
ServiceSet(key, value, ttl) == Marshal(Command(SetOp, key, value, ttl))

ServiceDelete(key) == Marshal(Command(DeleteOp, key, "", 0))

\* The gateway's outcome for a store lookup.
ServiceGetResult(r) ==
    IF r.found THEN [value |-> r.value, err |-> "nil"]
    ELSE [value |-> "", err |-> "key not found"]

ConsistencyError == [value |-> "", err |-> "consistency error"]

\* A gateway that reads without asking consensus.
NeverVerify(m) == FALSE

\* Strong mode asks consensus before it reads.
NeedsVerify(m) == m = "strong"

\* consensus.verify_leader
VerifyLeader(leader) == IF leader THEN "nil" ELSE "not leader"

\* A gateway whose Gets never join a lookup in flight.
CoalescesNever(f, key) == FALSE

\* Single-flight: a Get joins the lookup in flight for its key, if any.
Coalesces(f, key) == f[key]

\* The gateway served no write yet: the operation, its context, its
\* command, the byte strings it handed to consensus, what consensus returned
\* and what the gateway returned.
NoSvcCall == [op |-> "none", ctx |-> "live", cmd |-> Command("", "", "", 0),
              submitted |-> <<>>, consensusErr |-> "nil", err |-> "nil"]

\* A Set or Delete that reports success whatever consensus returned.
ServiceWriteSwallow(c, ctx, consensusErr) ==
    [op |-> IF c.op = SetOp THEN "set" ELSE "delete", ctx |-> ctx, cmd |-> c,
     submitted |-> <<IF c.op = SetOp THEN ServiceSet(c.key, c.value, c.ttl)
                     ELSE ServiceDelete(c.key)>>,
     consensusErr |-> consensusErr, err |-> "nil"]

\* ServiceImpl.Set / ServiceImpl.Delete called with context ctx, when
\* consensus.Apply returns consensusErr.
ServiceWrite(c, ctx, consensusErr) ==
    [op |-> IF c.op = SetOp THEN "set" ELSE "delete", ctx |-> ctx, cmd |-> c,
     submitted |-> <<IF c.op = SetOp THEN ServiceSet(c.key, c.value, c.ttl)
                     ELSE ServiceDelete(c.key)>>,
     consensusErr |-> consensusErr, err |-> consensusErr]

\* ServiceImpl.Join called with context ctx, when consensus.AddVoter returns
\* consensusErr.
ServiceJoin(ctx, consensusErr) ==
    [NoSvcCall EXCEPT !.op = "join", !.ctx = ctx, !.consensusErr = consensusErr,
                      !.err = consensusErr]

\* A response: the translator (via), the HTTP status and body or the RPC
\* value (body), found flag and transport error, and the gateway error it
\* answers (cause).
NoResp == [via |-> "none", cause |-> "nil", status |-> 0, body |-> "",
           found |-> FALSE, err |-> "nil"]

\* The /get handler: what it writes for the gateway's outcome.
HttpGet(out) ==
    IF out.err # "nil"
    THEN [NoResp EXCEPT !.via = "http", !.cause = out.err, !.status = 404,
                        !.body = "not found"]
    ELSE [NoResp EXCEPT !.via = "http", !.status = 200, !.body = out.value]

\* Adapter.Get: the GetResponse and the transport error it returns.
AdapterGet(out) ==
    IF out.err # "nil"
    THEN [NoResp EXCEPT !.via = "rpc", !.cause = out.err, !.body = "",
                        !.found = FALSE, !.err = "nil"]
    ELSE [NoResp EXCEPT !.via = "rpc", !.body = out.value, !.found = TRUE, !.err = "nil"]

Translate(via, out) == IF via = "http" THEN HttpGet(out) ELSE AdapterGet(out)

\* The /set handler, for the query parameters it is sent and what consensus
\* returns: the gateway call it makes, if any, and what it writes.
HttpSet(key, value, ttl, consensusErr) ==
    IF key = ""
    THEN [call |-> NoSvcCall,
          resp |-> [NoResp EXCEPT !.via = "http", !.status = 400, !.body = "missing key"]]
    ELSE LET c == ServiceWrite(Command(SetOp, key, value, 0), "live", consensusErr)
         IN [call |-> c,
             resp |-> IF c.err # "nil"
                      THEN [NoResp EXCEPT !.via = "http", !.cause = c.err,
                                          !.status = 500, !.body = c.err]
                      ELSE [NoResp EXCEPT !.via = "http", !.status = 200, !.body = "ok"]]

\* ------------------------------------------------------------------------
\* consensus: BufferedConn and RaftListener
\* ------------------------------------------------------------------------
\* A connection to the consensus port: where it stands (none, backlog,
\* peeking, closed, surfaced), the bytes its peer has sent, how many of them
\* were read from the socket, BufferedConn's peeked bytes, how Accept's read
\* of the first byte ended, what Accept wrote, what the peer received of it,
\* whether Accept returned the connection, and the bytes Read has handed to
\* the consensus transport.
NoResponse == [statusLine |-> "", connection |-> "", contentLength |-> 0, body |-> ""]

NoConn == [st |-> "none", sent |-> <<>>, pos |-> 0, peeked |-> <<>>, peek |-> "none",
           wrote |-> NoResponse, received |-> NoResponse, returned |-> FALSE,
           got |-> <<>>]

\* The bytes Accept writes to a connection it takes for HTTP.
HealthResponse == [statusLine |-> "HTTP/1.1 200 OK", connection |-> "close",
                   contentLength |-> 2, body |-> "ok"]

Min(a, b) == IF a < b THEN a ELSE b

\* Bytes the socket holds that nobody has read.
Available(c) == Len(c.sent) - c.pos

\* What the socket's Read can return for a buffer of this size: it blocks
\* while there is nothing to read, and may return fewer bytes than fit.
ReadCounts(c, size) ==
    IF Len(c.peeked) > 0 \/ size = 0 THEN {0} ELSE 1..Min(size, Available(c))

ConnRead(c, n) ==
    [c EXCEPT !.got = @ \o SubSeq(c.sent, c.pos + 1, c.pos + n), !.pos = @ + n]

\* BufferedConn.Read into a buffer of this size; n is the socket's count when
\* the read goes to the socket.
BufferedConnRead(c, size, n) ==
    IF Len(c.peeked) > 0
    THEN LET copied == Min(size, Len(c.peeked))
         IN [c EXCEPT !.got = @ \o SubSeq(c.peeked, 1, copied),
                      !.peeked = SubSeq(@, copied + 1, Len(@))]
    ELSE ConnRead(c, n)

ConnClose(c) == [c EXCEPT !.st = "closed"]

\* Accept's test on the first byte.
LooksLikeHTTPNoD(b) == b = "G" \/ b = "H" \/ b = "P" \/ b = "C" \/ b = "O"

LooksLikeHTTP(b) == b = "G" \/ b = "H" \/ b = "P" \/ b = "C" \/ b = "O" \/ b = "D"

\* What Accept last returned, and where its loop stands: blocked in the
\* listener's Accept, or in the read of the first byte of conn.
NoAccept == [pc |-> "accept", conn |-> 0, ret |-> [conn |-> 0, err |-> "nil"]]

\* l.Listener.Accept() returned connection id: the read deadline is set and
\* the read of one byte begins.
AcceptPeek(a, id) == [a EXCEPT !.pc = "peek", !.conn = id]

\* l.Listener.Accept() failed: Accept returns the error, and the transport
\* calls Accept again.
AcceptFails(a, err) == [a EXCEPT !.ret = [conn |-> 0, err |-> err]]

\* conn.Close(); continue, after a failed read of the first byte.
AcceptDropReturns(a, err) ==
    [a EXCEPT !.pc = "accept", !.conn = 0, !.ret = [conn |-> 0, err |-> err]]

AcceptDrop(a, err) == [a EXCEPT !.pc = "accept", !.conn = 0]

\* The BufferedConn Accept returns.
BufferedConnBare(c, peek) == [c EXCEPT !.st = "surfaced", !.returned = TRUE]

BufferedConn(c, peek) ==
    [c EXCEPT !.st = "surfaced", !.returned = TRUE, !.peeked = peek]

\* The rest of Accept's loop body once the read of the first byte ended with
\* r = [n, err]: the connection and the loop afterwards. writeErr is how the
\* write of the response ends.
AcceptRead(c, a, r, writeErr) ==
    IF r.err # "nil"
    THEN <<ConnClose([c EXCEPT !.peek = r.err]), AcceptDrop(a, r.err)>>
    ELSE IF r.n = 0
    THEN <<ConnClose([c EXCEPT !.peek = "empty"]), AcceptDrop(a, "nil")>>
    ELSE LET read == [c EXCEPT !.peek = "byte", !.pos = 1]
             b == c.sent[1]
         IN IF LooksLikeHTTP(b)
            THEN <<ConnClose([read EXCEPT
                       !.wrote = HealthResponse,
                       !.received = IF writeErr = "nil" THEN HealthResponse ELSE NoResponse]),
                   [a EXCEPT !.pc = "accept", !.conn = 0]>>
            ELSE <<BufferedConn(read, <<b>>),
                   [a EXCEPT !.pc = "accept", !.ret = [conn |-> a.conn, err |-> "nil"],
                             !.conn = 0]>>

\* ------------------------------------------------------------------------
\* sharding: the consistent-hash Map, m = [virtualNodes, keys, hashMap]
\* ------------------------------------------------------------------------
ShardingNew(virtualNodes) ==
    [virtualNodes |-> virtualNodes, keys |-> <<>>, hashMap |-> EmptyMap]

\* strconv.Itoa(i) + key
VirtualLabel(i, key) == Decimal[i] \o key

Least(s) == CHOOSE x \in ElemsOf(s) : \A y \in ElemsOf(s) : x <= y

WithoutIndex(s, i) == SubSeq(s, 1, i - 1) \o SubSeq(s, i + 1, Len(s))

\* sort.Ints
RECURSIVE SortInts(_)
SortInts(s) ==
    IF s = <<>> THEN <<>>
    ELSE <<Least(s)>> \o SortInts(WithoutIndex(s, FirstIndex(s, Least(s))))

RECURSIVE SeqOfSet(_)
SeqOfSet(S) ==
    IF S = {} THEN <<>> ELSE LET x == CHOOSE y \in S : TRUE IN <<x>> \o SeqOfSet(S \ {x})

\* Add's inner loop for one key, from virtual node i on.
RECURSIVE AddVirtual(_, _, _, _)
AddVirtual(m, h, key, i) ==
    IF i >= m.virtualNodes THEN m
    ELSE AddVirtual([m EXCEPT !.keys = Append(@, h[VirtualLabel(i, key)]),
                              !.hashMap = MapPut(@, h[VirtualLabel(i, key)], key)],
                    h, key, i + 1)

RECURSIVE AddKeys(_, _, _)
AddKeys(m, h, keys) ==
    IF keys = <<>> THEN m ELSE AddKeys(AddVirtual(m, h, Head(keys), 0), h, Tail(keys))

MapAdd(m, h, keys) == [AddKeys(m, h, keys) EXCEPT !.keys = SortInts(@)]

\* sort.Search(n, f) with f(i) = keys[i] >= hashOf, indices from 0.
RECURSIVE Search(_, _, _, _)
Search(keys, hashOf, i, j) ==
    IF i < j
    THEN LET mid == (i + j) \div 2
         IN IF ~(keys[mid + 1] >= hashOf)
            THEN Search(keys, hashOf, mid + 1, j)
            ELSE Search(keys, hashOf, i, mid)
    ELSE i

\* Map.Get without the wrap to index 0.
MapGetNoWrap(m, h, key) ==
    IF Len(m.keys) = 0 THEN NoKey
    ELSE LET idx == Search(m.keys, h[key], 0, Len(m.keys))
         IN IF idx = Len(m.keys) THEN NoKey ELSE m.hashMap[m.keys[idx + 1]]

MapGet(m, h, key) ==
    IF Len(m.keys) = 0 THEN NoKey
    ELSE LET found == Search(m.keys, h[key], 0, Len(m.keys))
             idx == IF found = Len(m.keys) THEN 0 ELSE found
         IN m.hashMap[m.keys[idx + 1]]

\* Map.Remove that drops only the node's smallest hash.
MapRemoveOne(m, key) ==
    LET mine == {k \in DOMAIN m.hashMap : m.hashMap[k] = key}
        kept == (DOMAIN m.hashMap) \ {k \in mine : \A j \in mine : k <= j}
    IN [m EXCEPT !.hashMap = [k \in kept |-> m.hashMap[k]],
                 !.keys = SortInts(SeqOfSet(kept))]

\* The range over hashMap visits the entries in any order; the sort that
\* follows makes the order immaterial.
MapRemove(m, key) ==
    LET kept == {k \in DOMAIN m.hashMap : m.hashMap[k] # key}
    IN [m EXCEPT !.hashMap = [k \in kept |-> m.hashMap[k]],
                 !.keys = SortInts(SeqOfSet(kept))]

\* ------------------------------------------------------------------------
\* The locks of the store: Store.mu (sync.RWMutex) and the policy's mu
\* ------------------------------------------------------------------------
\* RLock goes through unless a writer owns the lock or has announced itself.
CanRLock(m) == m.writer = "none"

RLock(m, t) == [m EXCEPT !.readers = @ \cup {t}]

\* An RUnlock that leaves the reader inside.
RUnlockStays(m, t) == m

RUnlock(m, t) == [m EXCEPT !.readers = @ \ {t}]

\* Lock first takes the writers' mutex, which keeps later readers out, and
\* then waits for the readers inside to leave.
CanAnnounce(m) == m.writer = "none"

Announce(m, t) == [m EXCEPT !.writer = t]

Drained(m) == m.readers = {}

Unlock(m, t) == [m EXCEPT !.writer = "none"]

\* The store calls that take the lock for writing.
WriteOps == {"get", "set", "delete", "sweep", "restore"}

StoreOps == WriteOps \cup {"snapshot"}

\* The policy methods a store call makes under the store lock, in order,
\* each of which locks and unlocks the policy's mu.
PolicyCalls(s, op, key, victim, t) ==
    IF s.policy.kind = "nil" THEN <<>>
    ELSE CASE op = "get" ->
                IF GetResult(s, key, t).found THEN <<"OnAccess">> ELSE <<>>
           [] op = "set" ->
                IF key \in DOMAIN s.items THEN <<"OnAccess">>
                ELSE (IF MustEvict(s)
                      THEN <<"SelectVictim">>
                            \o (IF victim # NoKey /\ victim \in DOMAIN s.items
                                THEN <<"OnRemove">> ELSE <<>>)
                      ELSE <<>>) \o <<"OnAdd">>
           [] op = "delete" ->
                IF key \in DOMAIN s.items THEN <<"OnRemove">> ELSE <<>>
           [] OTHER -> <<>>

\* The snapshot the goroutines restore from.
LockSnapshot == JsonEncode([k \in {"a"} |-> [value |-> "v1", expiration |-> 0]])

\* The store after the call, made at time t.
StoreCall(s, op, key, victim, t) ==
    CASE op = "get" -> Get(s, key, t)
      [] op = "set" -> Set(s, key, "v1", 0, t, victim)
      [] op = "delete" -> Delete(s, key)
      [] op = "sweep" -> deleteExpired(s, t)
      [] op = "restore" -> Restore(s, LockSnapshot)
      [] OTHER -> s

\* ------------------------------------------------------------------------
\* main: the store a node is started with
\* ------------------------------------------------------------------------
\* strings.ToLower on the values the eviction_policy flag is given here.
ToLower ==
    [x \in {"lru", "fifo", "lfu", "random", "none", "NONE", "arc"} |->
        IF x = "NONE" THEN "none" ELSE x]

\* The policy main's switch picks for the flag; "nil" is the nil policy.
MainPolicy(evictionPol) ==
    CASE ToLower[evictionPol] = "lru" -> "lru"
      [] ToLower[evictionPol] = "fifo" -> "fifo"
      [] ToLower[evictionPol] = "lfu" -> "lfu"
      [] ToLower[evictionPol] = "random" -> "random"
      [] ToLower[evictionPol] = "none" -> "nil"
      [] OTHER -> "lru"

\* store.New(storeOpts...) as main calls it: WithCapacity and the policy
\* only when max_items > 0, and WithPolicy only for a policy that is not
\* nil; without WithPolicy the store keeps the LRU policy New starts with.
MainStore(maxItems, evictionPol) ==
    IF maxItems > 0
    THEN IF MainPolicy(evictionPol) # "nil"
         THEN New(maxItems, MainPolicy(evictionPol))
         ELSE New(maxItems, "lru")
    ELSE New(0, "lru")

\* ------------------------------------------------------------------------
\* One store under its operations
\* ------------------------------------------------------------------------
VARIABLES
    store,      \* the Store
    now,        \* time.Now().UnixNano()
    res,        \* the last operation when it was a Get (what it returned) or a
                \* Restore (the keys of its snapshot)
    lastSet,    \* per key: the last Set that nothing has since overridden
    pol,        \* an eviction policy driven on its own
    added,      \* keys given to OnAdd and not since to OnRemove
    removed,    \* keys given to OnRemove and not since to OnAdd
    last,       \* the last call on the policy and what it returned
    hist,       \* what the calls on the policy so far amount to, kept apart
                \* from the policy: the order of the keys' latest touches, the
                \* order of the tracked keys' insertions, each key's use count
    rep,        \* the Store of each replica
    log,        \* the committed entries, in commit order
    applied,    \* per replica: how many entries its FSM has applied
    phase,      \* "pre" until the second store is restored, then "post"
    handle,     \* the raft.FSMSnapshot that FSM.Snapshot returned
    sink,       \* the raft.SnapshotSink handed to Persist
    ret,        \* what the last FSM.Apply returned
    mode,       \* the gateway's consistency mode
    isLeader,   \* whether this node still holds leadership
    flight,     \* per key: a single-flight lookup is in progress
    call,       \* per caller: the Get it is performing
    resp,       \* what the API translator answered, when the last step was a response
    lookups,    \* per key: store lookups the gateway made
    fresh,      \* per key: Gets that reached the group while none was in flight
    writes,     \* writes committed so far
    calls,      \* Gets started so far
    lastCall,   \* the last Set, Delete or Join the gateway served
    flags,      \* the flags main was started with
    req,        \* per key: the last /set request the node answered with ok
    mu,         \* Store.mu: the writer that owns it and the readers inside
    pmu,        \* the policy's mu: the goroutine that holds it
    thread,     \* per goroutine: the store call it is in and where it stands
    started,    \* store calls started so far
    conns,      \* per connection to the consensus port: the socket and its peer
    acc,        \* where RaftListener.Accept stands and what it last returned
    ring,       \* the sharding Map
    hash,       \* the Hash function the Map was built with
    lastRing    \* the last call on the Map and what it returned

polVars == <<pol, added, removed, last, hist>>

storeVars == <<store, now, res, lastSet, polVars>>

repVars == <<rep, log, applied, phase, handle, sink, ret>>

lockVars == <<mu, pmu, thread, started>>

sysVars == <<flags, req, lockVars>>

gwVars == <<mode, isLeader, flight, call, resp, lookups, fresh, writes, calls, lastCall,
           sysVars>>

netVars == <<conns, acc, ring, hash, lastRing>>

vars == <<storeVars, repVars, gwVars, netVars>>

Replicas == {1, 2}

Callers == {"c1", "c2"}

Vias == {"http", "rpc"}

\* A caller's Get: where it stands, its key, whether the node held leadership
\* when it began, whether a write to its key committed since it began, and
\* the gateway's outcome.
NoCall == [pc |-> "idle", key |-> NoKey, leaderAtStart |-> FALSE, overwritten |-> FALSE,
           out |-> [value |-> "", err |-> "nil"]]

\* The keys the policies are driven with on their own.
PolKeys == {"a", "b", "c"}

\* No call on the policy yet: nothing touched, nothing inserted, nothing used.
NoHist == [touches |-> <<>>, arrivals |-> <<>>, uses |-> [k \in PolKeys |-> 0]]

Conns == {1, 2}

Nodes == {"n1", "n2", "n3"}

\* The strings the Map hashes: each node's virtual-node labels, and the keys
\* looked up.
VirtualNodes == {0, 1, 2}

\* The keys looked up, one for each value the Hash function can take: the
\* key named k<i> is a key that hashes to i.
KeyAt == [i \in 0..MaxHash |-> "k" \o Decimal[i]]

RingKeys == {KeyAt[i] : i \in 0..MaxHash}

\* The nodes a Map is driven with: all three with up to one virtual node
\* each, the first two with two virtual nodes each.
RingNodes(virtualNodes) == IF virtualNodes <= 1 THEN Nodes ELSE {"n1", "n2"}

Labels(virtualNodes) ==
    {VirtualLabel(i, n) : i \in 0..(virtualNodes - 1), n \in RingNodes(virtualNodes)}

HashInputs == Labels(1) \cup Labels(2) \cup RingKeys

ParseKeyAt(key) == CHOOSE i \in 0..MaxHash : KeyAt[i] = key

\* No call on the Map yet. owners is what Get returned for each key before
\* the call, when the call was a Remove; before is the Map before the call
\* and fresh tells that the call added one node that was not on the ring,
\* when the call was an Add.
NoRingCall == [op |-> "none", key |-> NoKey, ret |-> NoKey,
               owners |-> [k \in RingKeys |-> NoKey],
               fresh |-> FALSE, before |-> ShardingNew(0)]

ListenIdle ==
    /\ conns = [c \in Conns |-> NoConn]
    /\ acc = NoAccept

RingIdle ==
    /\ ring = ShardingNew(0)
    /\ hash = [x \in HashInputs |-> IF x \in RingKeys THEN ParseKeyAt(x) ELSE 0]
    /\ lastRing = NoRingCall

NetIdle == ListenIdle /\ RingIdle

\* The variables of the parts a specification does not exercise stay put.
\* No call on the policy yet.
NoPolCall == [op |-> "none", key |-> NoKey, ret |-> NoKey]

PolIdle ==
    /\ pol = NewPolicy("lru")
    /\ added = {}
    /\ removed = {}
    /\ last = NoPolCall
    /\ hist = NoHist

StoreIdle ==
    /\ PolIdle
    /\ store = New(0, "lru")
    /\ res = [op |-> "none", key |-> NoKey, value |-> "", found |-> FALSE, keys |-> {}]
    /\ lastSet = [k \in Keys |-> [valid |-> FALSE, value |-> "", ttl |-> 0, at |-> 0]]

HandleIdle ==
    /\ handle = NoHandle
    /\ sink = NoSink
    /\ ret = "none"

RepIdle ==
    /\ rep = [r \in Replicas |-> New(0, "lru")]
    /\ log = <<>>
    /\ applied = [r \in Replicas |-> 0]
    /\ phase = "pre"
    /\ HandleIdle

\* No flags: the node is not looked at as main starts it.
NoFlags == [maxItems |-> 0, evictionPol |-> "lru"]

\* No /set request yet: its value and ttl parameters and when it was served.
NoReq == [valid |-> FALSE, value |-> "", ttl |-> "", at |-> 0]

Threads == {"t1", "t2"}

\* A goroutine outside the store: the call it makes next, the policy calls
\* still to come in it and the victim SelectVictim returns to it.
NoThread == [pc |-> "idle", op |-> "none", key |-> NoKey, calls |-> <<>>, victim |-> NoKey]

NoLock == [writer |-> "none", readers |-> {}]

LockIdle ==
    /\ mu = NoLock
    /\ pmu = "none"
    /\ thread = [t \in Threads |-> NoThread]
    /\ started = 0

SysIdle ==
    /\ flags = NoFlags
    /\ req = [k \in Keys |-> NoReq]
    /\ LockIdle

GatewayIdle ==
    /\ mode = "eventual"
    /\ isLeader = TRUE
    /\ flight = [k \in Keys |-> FALSE]
    /\ call = [c \in Callers |-> NoCall]
    /\ resp = NoResp
    /\ lookups = [k \in Keys |-> 0]
    /\ fresh = [k \in Keys |-> 0]
    /\ writes = 0
    /\ calls = 0
    /\ lastCall = NoSvcCall

GwIdle == GatewayIdle /\ SysIdle

NoSet == [valid |-> FALSE, value |-> "", ttl |-> 0, at |-> 0]

NoRes == [op |-> "none", key |-> NoKey, value |-> "", found |-> FALSE, keys |-> {}]

\* The snapshots handed to Restore: the encodings of the items maps a store
\* of this capacity holds when every item was set to the first value and
\* never expires or was set at time 1 with a ttl of 1.
Expirations == {0, 1 + 1}

ItemsOver(S) == [S -> [value : {"v1"}, expiration : Expirations]]

SnapshotInputs(capacity) ==
    {JsonEncode(m) : m \in UNION {ItemsOver(S) :
        S \in {T \in SUBSET Keys : capacity = 0 \/ Cardinality(T) <= capacity}}}

\* The stores New builds: capacity 0 with New's default LRU policy, or a
\* positive capacity with the policy WithPolicy is given, nil included.
Configs == {cfg \in Capacities \X Kinds : cfg[1] > 0 \/ cfg[2] = "lru"}

StoreInit ==
    /\ PolIdle
    /\ \E cfg \in Configs : store = New(cfg[1], cfg[2])
    /\ now = 1
    /\ res = NoRes
    /\ lastSet = [k \in Keys |-> NoSet]

\* Keys an operation removed from the map.
Dropped(old, new) == (DOMAIN old.items) \ (DOMAIN new.items)

DoGet(key) ==
    /\ PolicyInBounds(Get(store, key, now).policy)
    /\ store' = Get(store, key, now)
    /\ res' = [op |-> "get", key |-> key,
               value |-> GetResult(store, key, now).value,
               found |-> GetResult(store, key, now).found, keys |-> {}]
    /\ UNCHANGED <<polVars, now, lastSet, repVars, gwVars, netVars>>

DoSet(key, value, ttl) ==
    \E victim \in VictimChoices(store, key) :
        LET new == Set(store, key, value, ttl, now, victim)
        IN /\ PolicyInBounds(new.policy)
           /\ store' = new
           /\ res' = NoRes
           /\ lastSet' = [k \in Keys |->
                            IF k = key
                            THEN [valid |-> TRUE, value |-> value, ttl |-> ttl, at |-> now]
                            ELSE IF k \in Dropped(store, new) THEN NoSet
                            ELSE lastSet[k]]
           /\ UNCHANGED <<polVars, now, repVars, gwVars, netVars>>

DoDelete(key) ==
    /\ store' = Delete(store, key)
    /\ res' = NoRes
    /\ lastSet' = [lastSet EXCEPT ![key] = NoSet]
    /\ UNCHANGED <<polVars, now, repVars, gwVars, netVars>>

\* StartCleanup's tick: deleteExpired reads the clock before it takes the
\* lock, so the time it sweeps with may be older than now.
DoSweep ==
    \E t \in 1..now :
        /\ store' = deleteExpired(store, t)
        /\ res' = NoRes
        /\ UNCHANGED <<polVars, now, lastSet, repVars, gwVars, netVars>>

DoRestore ==
    \E snap \in SnapshotInputs(store.capacity) :
        /\ store' = Restore(store, snap)
        /\ res' = [NoRes EXCEPT !.op = "restore", !.keys = BlobKeys(snap)]
        /\ lastSet' = [k \in Keys |-> IF k \in BlobKeys(snap) THEN NoSet ELSE lastSet[k]]
        /\ UNCHANGED <<polVars, now, repVars, gwVars, netVars>>

Tick ==
    /\ now < MaxTime
    /\ now' = now + 1
    /\ res' = NoRes
    /\ UNCHANGED <<polVars, store, lastSet, repVars, gwVars, netVars>>

StoreNext ==
    \/ \E key \in Keys : DoGet(key)
    \/ \E key \in Keys, value \in Values, ttl \in TTLs : DoSet(key, value, ttl)
    \/ \E key \in Keys : DoDelete(key)
    \/ DoSweep
    \/ DoRestore
    \/ Tick

Init == StoreInit /\ RepIdle /\ GwIdle /\ NetIdle

Next == StoreNext

Spec == Init /\ [][Next]_vars

\* ------------------------------------------------------------------------
\* The store of a running node: main builds it with store.New and never calls
\* StartCleanup, so no sweep runs beside the operations. Time passes, and
\* clients keep reading.
\* ------------------------------------------------------------------------
EvictionPolicies == DOMAIN ToLower

Flags == [maxItems : Capacities, evictionPol : EvictionPolicies]

MainInit ==
    /\ flags \in Flags
    /\ req = [k \in Keys |-> NoReq]
    /\ LockIdle
    /\ store = MainStore(flags.maxItems, flags.evictionPol)
    /\ PolIdle
    /\ now = 1
    /\ res = NoRes
    /\ lastSet = [k \in Keys |-> NoSet]
    /\ RepIdle
    /\ GatewayIdle
    /\ NetIdle

NodeNext ==
    \/ \E key \in Keys : DoGet(key)
    \/ \E key \in Keys, value \in Values, ttl \in TTLs : DoSet(key, value, ttl)
    \/ \E key \in Keys : DoDelete(key)
    \/ Tick

SpecNode ==
    /\ MainInit
    /\ [][NodeNext]_vars
    /\ WF_vars(Tick)
    /\ \A key \in Keys : WF_vars(DoGet(key))

\* ------------------------------------------------------------------------
\* Two replicas applying one committed log, each at its own pace
\* ------------------------------------------------------------------------
Commands ==
    {Command(SetOp, k, v, ttl) : k \in Keys, v \in Values, ttl \in TTLs}
        \cup {Command(DeleteOp, k, "", 0) : k \in Keys}

RepInit ==
    /\ \E c \in Capacities, kind \in Kinds : rep = [r \in Replicas |-> New(c, kind)]
    /\ log = <<>>
    /\ applied = [r \in Replicas |-> 0]
    /\ phase = "pre"
    /\ HandleIdle
    /\ now = 1
    /\ StoreIdle
    /\ GwIdle
    /\ NetIdle

\* ServiceImpl.Set / Delete on the leader: the entry is committed.
Submit(c) ==
    /\ Len(log) < MaxLog
    /\ log' = Append(log, IF c.op = SetOp THEN ServiceSet(c.key, c.value, c.ttl)
                          ELSE ServiceDelete(c.key))
    /\ UNCHANGED <<rep, applied, phase, handle, sink, ret, storeVars, gwVars, netVars>>

\* A replica's FSM applies its next committed entry.
RepApply(r) ==
    /\ applied[r] < Len(log)
    /\ \E victim \in ApplyVictims(rep[r], log[applied[r] + 1]) :
        LET new == Apply(rep[r], log[applied[r] + 1], now, victim)
        IN /\ PolicyInBounds(new.policy)
           /\ rep' = [rep EXCEPT ![r] = new]
    /\ applied' = [applied EXCEPT ![r] = @ + 1]
    /\ UNCHANGED <<log, phase, handle, sink, ret, storeVars, gwVars, netVars>>

\* A replica serves a local (eventual-mode) read.
RepGet(r, key) ==
    /\ PolicyInBounds(Get(rep[r], key, now).policy)
    /\ rep' = [rep EXCEPT ![r] = Get(rep[r], key, now)]
    /\ UNCHANGED <<log, applied, phase, handle, sink, ret, storeVars, gwVars, netVars>>

RepTick ==
    /\ now < MaxTime
    /\ now' = now + 1
    /\ UNCHANGED <<polVars, store, res, lastSet, repVars, gwVars, netVars>>

RepNext ==
    \/ \E c \in Commands : Submit(c)
    \/ \E r \in Replicas : RepApply(r)
    \/ \E r \in Replicas, key \in Keys : RepGet(r, key)
    \/ RepTick

SpecRep == RepInit /\ [][RepNext]_vars

\* ------------------------------------------------------------------------
\* A store and a second store restored from its snapshot, applying the
\* same entries at the same times
\* ------------------------------------------------------------------------
SnapInit == RepInit

\* The entry is applied to the first store and, once it exists, to the
\* restored one, at the same clock reading.
SnapApply(c) ==
    /\ Len(log) < MaxLog
    /\ LET data == IF c.op = SetOp THEN ServiceSet(c.key, c.value, c.ttl)
                   ELSE ServiceDelete(c.key)
       IN /\ log' = Append(log, data)
          /\ \E v1 \in ApplyVictims(rep[1], data), v2 \in ApplyVictims(rep[2], data) :
                LET new1 == Apply(rep[1], data, now, v1)
                    new2 == IF phase = "post" THEN Apply(rep[2], data, now, v2)
                            ELSE rep[2]
                IN /\ PolicyInBounds(new1.policy)
                   /\ PolicyInBounds(new2.policy)
                   /\ rep' = [rep EXCEPT ![1] = new1, ![2] = new2]
    /\ applied' = [r \in Replicas |->
                      IF r = 1 \/ phase = "post" THEN applied[r] + 1 ELSE applied[r]]
    /\ UNCHANGED <<phase, now, handle, sink, ret, storeVars, gwVars, netVars>>

\* The snapshot of the first store is persisted and restored into the
\* second, fresh store.
SnapRestore ==
    /\ phase = "pre"
    /\ phase' = "post"
    /\ rep' = [rep EXCEPT ![2] = FSMRestore(rep[2], Persist(rep[1]))]
    /\ applied' = [applied EXCEPT ![2] = applied[1]]
    /\ UNCHANGED <<log, now, handle, sink, ret, storeVars, gwVars, netVars>>

SnapNext ==
    \/ \E c \in Commands : SnapApply(c)
    \/ SnapRestore
    \/ RepTick

SpecSnap == SnapInit /\ [][SnapNext]_vars

\* ------------------------------------------------------------------------
\* A snapshot handle: the consensus layer takes it on the FSM goroutine and
\* persists it on another while the FSM goes on applying entries
\* ------------------------------------------------------------------------
HandleInit ==
    /\ \E cfg \in Configs : rep = [r \in Replicas |-> New(cfg[1], cfg[2])]
    /\ log = <<>>
    /\ applied = [r \in Replicas |-> 0]
    /\ phase = "pre"
    /\ HandleIdle
    /\ now = 1
    /\ StoreIdle
    /\ GwIdle
    /\ NetIdle

\* The FSM applies the next committed entry to its store.
HandleApply(c) ==
    /\ applied[1] < MaxLog
    /\ LET data == IF c.op = SetOp THEN ServiceSet(c.key, c.value, c.ttl)
                   ELSE ServiceDelete(c.key)
       IN \E victim \in ApplyVictims(rep[1], data) :
             LET new == Apply(rep[1], data, now, victim)
             IN /\ PolicyInBounds(new.policy)
                /\ rep' = [rep EXCEPT ![1] = new]
    /\ applied' = [applied EXCEPT ![1] = @ + 1]
    /\ UNCHANGED <<log, phase, handle, sink, ret, storeVars, gwVars, netVars>>

\* FSM.Snapshot: the handle keeps a reference to the live store.
FSMSnapshot ==
    /\ ~handle.taken
    /\ handle' = [taken |-> TRUE, released |-> FALSE, index |-> applied[1],
                  atCall |-> JsonEncode(rep[1].items)]
    /\ UNCHANGED <<rep, log, applied, phase, sink, ret, storeVars, gwVars, netVars>>

WriteErrors == {"nil", "write error"}

CloseErrors == {"nil", "close error"}

\* Snapshot.Persist on the handle.
HandlePersist ==
    /\ handle.taken
    /\ sink = NoSink
    /\ \E writeErr \in WriteErrors, closeErr \in CloseErrors,
          n \in 0..Len(Snapshot(rep[1])) :
            sink' = PersistTo(rep[1], writeErr, closeErr, n)
    /\ UNCHANGED <<rep, log, applied, phase, handle, ret, storeVars, gwVars, netVars>>

\* Snapshot.Release, which the consensus layer calls once Persist returned.
HandleRelease ==
    /\ handle.taken
    /\ ~handle.released
    /\ sink # NoSink
    /\ handle' = [handle EXCEPT !.released = TRUE]
    /\ UNCHANGED <<rep, log, applied, phase, sink, ret, storeVars, gwVars, netVars>>

HandleNext ==
    \/ \E c \in Commands : HandleApply(c)
    \/ FSMSnapshot
    \/ HandlePersist
    \/ HandleRelease

SpecHandle == HandleInit /\ [][HandleNext]_vars

\* ------------------------------------------------------------------------
\* One committed entry applied once by the first store and twice in
\* succession by the second, from a common state
\* ------------------------------------------------------------------------
TwiceInit == HandleInit

\* Both stores apply the entry, at the same clock reading and with the
\* same victim.
TwiceApply(c) ==
    /\ phase = "pre"
    /\ applied[1] < MaxLog
    /\ LET data == IF c.op = SetOp THEN ServiceSet(c.key, c.value, c.ttl)
                   ELSE ServiceDelete(c.key)
       IN /\ log' = <<data>>
          /\ \E victim \in ApplyVictims(rep[1], data) :
                LET new == Apply(rep[1], data, now, victim)
                IN /\ PolicyInBounds(new.policy)
                   /\ rep' = [r \in Replicas |-> new]
    /\ applied' = [r \in Replicas |-> applied[r] + 1]
    /\ UNCHANGED <<phase, handle, sink, ret, storeVars, gwVars, netVars>>

\* The second store applies the last entry once more.
TwiceAgain ==
    /\ phase = "pre"
    /\ log # <<>>
    /\ phase' = "post"
    /\ \E victim \in ApplyVictims(rep[2], log[1]) :
          LET new == Apply(rep[2], log[1], now, victim)
          IN /\ PolicyInBounds(new.policy)
             /\ rep' = [rep EXCEPT ![2] = new]
    /\ applied' = [applied EXCEPT ![2] = @ + 1]
    /\ UNCHANGED <<log, handle, sink, ret, storeVars, gwVars, netVars>>

TwiceNext ==
    \/ \E c \in Commands : TwiceApply(c)
    \/ TwiceAgain
    \/ RepTick

SpecTwice == TwiceInit /\ [][TwiceNext]_vars

\* ------------------------------------------------------------------------
\* The FSM fed entries that are commands and entries that are not
\* ------------------------------------------------------------------------
\* Bytes that do not decode to a command: text cut short, and a ttl that is
\* not an integer.
Undecodable == {<<"op">>, <<"op", SetOp, "key", "a", "value", "v1", "ttl", "x">>}

\* Commands whose op is neither SET nor DELETE.
UnknownOps ==
    {Marshal(Command(op, "a", "v1", 0)) : op \in {"", "set", "INCR"}}

BadEntries == Undecodable \cup UnknownOps

\* The values of the commands fed: the empty value is left out of the
\* encoding.
FeedValues == {"", "v1"}

GoodEntries ==
    {ServiceSet(k, v, ttl) : k \in Keys, v \in FeedValues, ttl \in TTLs}
        \cup {ServiceDelete(k) : k \in Keys}

\* The FSM applies the next entry of the log, whatever its bytes.
FeedApply(data) ==
    /\ applied[1] < MaxLog
    /\ log' = Append(log, data)
    /\ \E victim \in ApplyVictims(rep[1], data) :
          LET new == Apply(rep[1], data, now, victim)
          IN /\ PolicyInBounds(new.policy)
             /\ rep' = [rep EXCEPT ![1] = new]
    /\ ret' = ApplyResult(data)
    /\ applied' = [applied EXCEPT ![1] = @ + 1]
    /\ UNCHANGED <<phase, handle, sink, storeVars, gwVars, netVars>>

FeedTick ==
    /\ now < MaxTime
    /\ now' = now + 1
    /\ UNCHANGED <<polVars, store, res, lastSet, repVars, gwVars, netVars>>

FeedNext ==
    \/ \E data \in GoodEntries \cup BadEntries : FeedApply(data)
    \/ FeedTick

SpecFeed == HandleInit /\ [][FeedNext]_vars

\* ------------------------------------------------------------------------
\* The gateway's write path: Set, Delete and Join go to consensus, and the
\* FSM applies what consensus committed
\* ------------------------------------------------------------------------
Contexts == {"live", "cancelled"}

\* What RaftNode.Apply and RaftNode.AddVoter return.
ConsensusErrors == {"nil", "node is not the leader", "timed out enqueuing operation"}

WriteInit == HandleInit

\* The writes handlers ask for: one value, with no ttl or the longest.
WriteCommands == {c \in Commands : c.ttl \in {0, MaxTTL} /\ c.value \in {"", "v1"}}

\* A handler calls Set or Delete. An entry whose submission timed out may
\* still be committed.
SvcWrite(c, ctx, consensusErr, committed) ==
    /\ consensusErr = "nil" => committed
    /\ consensusErr = "node is not the leader" => ~committed
    /\ committed => Len(log) < MaxLog
    /\ lastCall' = ServiceWrite(c, ctx, consensusErr)
    /\ log' = IF committed THEN log \o lastCall'.submitted ELSE log
    /\ UNCHANGED <<rep, applied, phase, handle, sink, ret, storeVars, sysVars, mode, isLeader,
                   flight, call, resp, lookups, fresh, writes, calls, netVars>>

\* A handler calls Join.
SvcJoin(ctx, consensusErr) ==
    /\ lastCall' = ServiceJoin(ctx, consensusErr)
    /\ UNCHANGED <<repVars, storeVars, sysVars, mode, isLeader, flight, call, resp, lookups,
                   fresh, writes, calls, netVars>>

\* The FSM applies the next committed entry to the local store.
WriteApply ==
    /\ applied[1] < Len(log)
    /\ \E victim \in ApplyVictims(rep[1], log[applied[1] + 1]) :
          LET new == Apply(rep[1], log[applied[1] + 1], now, victim)
          IN /\ PolicyInBounds(new.policy)
             /\ rep' = [rep EXCEPT ![1] = new]
    /\ applied' = [applied EXCEPT ![1] = @ + 1]
    /\ UNCHANGED <<log, phase, handle, sink, ret, storeVars, gwVars, netVars>>

WriteNext ==
    \/ \E c \in WriteCommands, ctx \in Contexts, e \in ConsensusErrors,
          committed \in BOOLEAN :
          SvcWrite(c, ctx, e, committed)
    \/ \E ctx \in Contexts, e \in ConsensusErrors : SvcJoin(ctx, e)
    \/ WriteApply

SpecWrite == WriteInit /\ [][WriteNext]_vars

\* ------------------------------------------------------------------------
\* An eviction policy on its own, under any sequence of calls
\* ------------------------------------------------------------------------
PolInit ==
    /\ \E kind \in Kinds \ {"nil"} : pol = NewPolicy(kind)
    /\ added = {}
    /\ removed = {}
    /\ last = NoPolCall
    /\ hist = NoHist
    /\ store = New(0, "lru")
    /\ now = 1
    /\ res = NoRes
    /\ lastSet = [k \in Keys |-> NoSet]
    /\ RepIdle
    /\ GwIdle
    /\ NetIdle

PolOnAdd(key) ==
    /\ PolicyInBounds(OnAdd(pol, key))
    /\ pol' = OnAdd(pol, key)
    /\ added' = added \cup {key}
    /\ removed' = removed \ {key}
    /\ last' = [op |-> "add", key |-> key, ret |-> NoKey]
    /\ UNCHANGED <<hist, store, now, res, lastSet, repVars, gwVars, netVars>>

PolOnAccess(key) ==
    /\ PolicyInBounds(OnAccess(pol, key))
    /\ pol' = OnAccess(pol, key)
    /\ last' = [op |-> "access", key |-> key, ret |-> NoKey]
    /\ UNCHANGED <<added, removed, hist, store, now, res, lastSet, repVars, gwVars, netVars>>

PolOnRemove(key) ==
    /\ pol' = OnRemove(pol, key)
    /\ added' = added \ {key}
    /\ removed' = removed \cup {key}
    /\ last' = [op |-> "remove", key |-> key, ret |-> NoKey]
    /\ UNCHANGED <<hist, store, now, res, lastSet, repVars, gwVars, netVars>>

PolSelectVictim ==
    /\ \E victim \in SelectVictim(pol) :
          last' = [op |-> "select", key |-> NoKey, ret |-> victim]
    /\ UNCHANGED <<pol, added, removed, hist, store, now, res, lastSet, repVars, gwVars, netVars>>

PolNext ==
    \/ \E key \in Keys : PolOnAdd(key)
    \/ \E key \in Keys : PolOnAccess(key)
    \/ \E key \in Keys : PolOnRemove(key)
    \/ PolSelectVictim

SpecPol == PolInit /\ [][PolNext]_vars

\* ------------------------------------------------------------------------
\* LRU, FIFO and LFU on their own, with the history of the calls kept beside
\* the policy
\* ------------------------------------------------------------------------
OrderedKinds == {"lru", "fifo", "lfu"}

\* The model's bound on the LFU counters.
FrequencyInBounds(p) == \A i \in 1..Len(p.pq) : p.pq[i].frequency <= MaxFreq

\* The key becomes the most recently touched one.
Touch(h, key) == [h EXCEPT !.touches = SeqWithout(@, key) \o <<key>>]

OrderInit ==
    /\ \E kind \in OrderedKinds : pol = NewPolicy(kind)
    /\ added = {}
    /\ removed = {}
    /\ last = NoPolCall
    /\ hist = NoHist
    /\ store = New(0, "lru")
    /\ now = 1
    /\ res = NoRes
    /\ lastSet = [k \in Keys |-> NoSet]
    /\ RepIdle
    /\ GwIdle
    /\ NetIdle

\* Use counts are kept for the LFU policy, the only one that counts.
OrderOnAdd(key) ==
    /\ FrequencyInBounds(OnAdd(pol, key))
    /\ pol' = OnAdd(pol, key)
    /\ added' = added \cup {key}
    /\ removed' = removed \ {key}
    /\ last' = [op |-> "add", key |-> key, ret |-> NoKey]
    /\ hist' = [Touch(hist, key) EXCEPT
                  !.arrivals = IF key \in added THEN @ ELSE Append(@, key),
                  !.uses[key] = IF pol.kind # "lfu" THEN @
                                ELSE IF key \in added THEN @ + 1 ELSE 1]
    /\ UNCHANGED <<store, now, res, lastSet, repVars, gwVars, netVars>>

OrderOnAccess(key) ==
    /\ FrequencyInBounds(OnAccess(pol, key))
    /\ pol' = OnAccess(pol, key)
    /\ last' = [op |-> "access", key |-> key, ret |-> NoKey]
    /\ hist' = [Touch(hist, key) EXCEPT
                  !.uses[key] = IF pol.kind = "lfu" /\ key \in added THEN @ + 1 ELSE @]
    /\ UNCHANGED <<added, removed, store, now, res, lastSet, repVars, gwVars, netVars>>

OrderOnRemove(key) ==
    /\ pol' = OnRemove(pol, key)
    /\ added' = added \ {key}
    /\ removed' = removed \cup {key}
    /\ last' = [op |-> "remove", key |-> key, ret |-> NoKey]
    /\ hist' = [hist EXCEPT !.arrivals = SeqWithout(@, key), !.uses[key] = 0]
    /\ UNCHANGED <<store, now, res, lastSet, repVars, gwVars, netVars>>

OrderSelectVictim ==
    /\ \E victim \in SelectVictim(pol) :
          last' = [op |-> "select", key |-> NoKey, ret |-> victim]
    /\ UNCHANGED <<pol, added, removed, hist, store, now, res, lastSet, repVars, gwVars,
                   netVars>>

OrderNext ==
    \/ \E key \in PolKeys : OrderOnAdd(key)
    \/ \E key \in PolKeys : OrderOnAccess(key)
    \/ \E key \in PolKeys : OrderOnRemove(key)
    \/ OrderSelectVictim

SpecOrder == OrderInit /\ [][OrderNext]_vars

\* ------------------------------------------------------------------------
\* The consensus port: peers connect and send, RaftListener.Accept sorts the
\* connections, the consensus transport reads the ones Accept returned
\* ------------------------------------------------------------------------
HTTPLetters == {"G", "H", "P", "C", "O", "D"}

\* First bytes a peer may send: the six letters, the type byte of an
\* AppendEntries RPC, and letters outside the six.
FirstBytes == HTTPLetters \cup {"0x01", "g", "T"}

LaterBytes == {"G", "0x01"}

BufSizes == {0, 1, 2}

ListenerErrors == {"use of closed network connection"}

ReadErrors == {"i/o timeout", "connection reset by peer"}

\* How conn.Read of the first byte can end: with the byte when the peer has
\* sent one, at the deadline when it has not, and with an error either way.
PeekResults(c) ==
    (IF Len(c.sent) > 0 THEN {[n |-> 1, err |-> "nil"]}
     ELSE {[n |-> 0, err |-> "i/o timeout"]})
        \cup {[n |-> 0, err |-> "connection reset by peer"]}

ListenInit ==
    /\ ListenIdle
    /\ RingIdle
    /\ StoreIdle
    /\ now = 1
    /\ RepIdle
    /\ GwIdle

PeerConnect(c) ==
    /\ conns[c].st = "none"
    /\ conns' = [conns EXCEPT ![c].st = "backlog"]
    /\ UNCHANGED <<acc, ring, hash, lastRing, storeVars, repVars, gwVars>>

PeerSend(c, b) ==
    /\ conns[c].st \in {"backlog", "peeking", "surfaced"}
    /\ Len(conns[c].sent) < MaxSent
    /\ b \in (IF Len(conns[c].sent) = 0 THEN FirstBytes ELSE LaterBytes)
    /\ conns' = [conns EXCEPT ![c].sent = Append(@, b)]
    /\ UNCHANGED <<acc, ring, hash, lastRing, storeVars, repVars, gwVars>>

\* l.Listener.Accept() returns a connection of the backlog.
ListenerAccept(c) ==
    /\ acc.pc = "accept"
    /\ conns[c].st = "backlog"
    /\ conns' = [conns EXCEPT ![c].st = "peeking"]
    /\ acc' = AcceptPeek(acc, c)
    /\ UNCHANGED <<ring, hash, lastRing, storeVars, repVars, gwVars>>

ListenerFails(err) ==
    /\ acc.pc = "accept"
    /\ acc' = AcceptFails(acc, err)
    /\ UNCHANGED <<conns, ring, hash, lastRing, storeVars, repVars, gwVars>>

\* The read of the first byte ends, and Accept goes on to its return or to
\* the top of its loop.
ListenerRead ==
    /\ acc.pc = "peek"
    /\ \E r \in PeekResults(conns[acc.conn]), writeErr \in WriteErrors :
          LET after == AcceptRead(conns[acc.conn], acc, r, writeErr)
          IN /\ conns' = [conns EXCEPT ![acc.conn] = after[1]]
             /\ acc' = after[2]
    /\ UNCHANGED <<ring, hash, lastRing, storeVars, repVars, gwVars>>

\* The consensus transport reads from a connection Accept returned.
TransportRead(c, size) ==
    /\ conns[c].st = "surfaced"
    /\ \E n \in ReadCounts(conns[c], size) :
          conns' = [conns EXCEPT ![c] = BufferedConnRead(@, size, n)]
    /\ UNCHANGED <<acc, ring, hash, lastRing, storeVars, repVars, gwVars>>

ListenNext ==
    \/ \E c \in Conns : PeerConnect(c)
    \/ \E c \in Conns, b \in FirstBytes \cup LaterBytes : PeerSend(c, b)
    \/ \E c \in Conns : ListenerAccept(c)
    \/ \E err \in ListenerErrors : ListenerFails(err)
    \/ ListenerRead
    \/ \E c \in Conns, size \in BufSizes : TransportRead(c, size)

SpecListen == ListenInit /\ [][ListenNext]_vars

\* ------------------------------------------------------------------------
\* The sharding Map under Add, Remove and Get, for every Hash function
\* ------------------------------------------------------------------------
\* Add is called with one node or with two.
NodeLists == {<<n>> : n \in Nodes} \cup {<<"n1", "n2">>}

\* Any Hash function will do on the labels: New takes it as a parameter. The
\* hashes of labels the Map never builds are left at 0.
RingInit ==
    /\ \E virtualNodes \in VirtualNodes :
          /\ ring = ShardingNew(virtualNodes)
          /\ hash \in [HashInputs -> 0..MaxHash]
          /\ \A x \in RingKeys : hash[x] = ParseKeyAt(x)
          /\ \A x \in HashInputs \ (Labels(virtualNodes) \cup RingKeys) : hash[x] = 0
    /\ lastRing = NoRingCall
    /\ ListenIdle
    /\ StoreIdle
    /\ now = 1
    /\ RepIdle
    /\ GwIdle

RingAdd(keys) ==
    /\ ElemsOf(keys) \subseteq RingNodes(ring.virtualNodes)
    /\ Len(ring.keys) + Len(keys) * ring.virtualNodes <= MaxRing
    /\ ring' = MapAdd(ring, hash, keys)
    /\ lastRing' = [NoRingCall EXCEPT
                        !.op = "add", !.key = Head(keys),
                        !.fresh = /\ Len(keys) = 1
                                  /\ \A x \in DOMAIN ring.hashMap : ring.hashMap[x] # Head(keys),
                        !.before = ring]
    /\ UNCHANGED <<hash, conns, acc, storeVars, repVars, gwVars>>

RingGet(key) ==
    /\ lastRing' = [NoRingCall EXCEPT !.op = "get", !.key = key,
                                      !.ret = MapGet(ring, hash, key)]
    /\ UNCHANGED <<ring, hash, conns, acc, storeVars, repVars, gwVars>>

RingRemove(key) ==
    /\ ring' = MapRemove(ring, key)
    /\ lastRing' = [NoRingCall EXCEPT !.op = "remove", !.key = key,
                                      !.owners = [k \in RingKeys |-> MapGet(ring, hash, k)]]
    /\ UNCHANGED <<hash, conns, acc, storeVars, repVars, gwVars>>

RingNext ==
    \/ \E keys \in NodeLists : RingAdd(keys)
    \/ \E key \in RingKeys : RingGet(key)
    \/ \E key \in RingNodes(ring.virtualNodes) : RingRemove(key)

SpecRing == RingInit /\ [][RingNext]_vars

\* ------------------------------------------------------------------------
\* The HTTP API of a single-node cluster: /set and /get on the leader, whose
\* FSM applies an entry before the handler answers. A tick is a second.
\* ------------------------------------------------------------------------
\* The ttl parameter of a /set request: absent, or a number of seconds.
TTLParams == {""} \cup {Decimal[n] : n \in 1..MaxTTL}

HttpInit ==
    /\ StoreIdle
    /\ now = 1
    /\ RepIdle
    /\ GwIdle
    /\ NetIdle

HttpSetRequest(key, value, ttl, consensusErr) ==
    LET h == HttpSet(key, value, ttl, consensusErr)
    IN /\ lastCall' = h.call
       /\ resp' = h.resp
       /\ res' = NoRes
       /\ IF h.call.op = "set" /\ h.call.err = "nil"
          THEN /\ store' = Apply(store, h.call.submitted[1], now, NoKey)
               /\ req' = [req EXCEPT ![key] =
                             [valid |-> TRUE, value |-> value, ttl |-> ttl, at |-> now]]
          ELSE UNCHANGED <<store, req>>
       /\ UNCHANGED <<polVars, now, lastSet, repVars, flags, lockVars, mode, isLeader, flight,
                      call, lookups, fresh, writes, calls, netVars>>

HttpGetRequest(key) ==
    /\ resp' = HttpGet(ServiceGetResult(GetResult(store, key, now)))
    /\ res' = [NoRes EXCEPT !.op = "get", !.key = key,
                            !.value = GetResult(store, key, now).value,
                            !.found = GetResult(store, key, now).found]
    /\ store' = Get(store, key, now)
    /\ UNCHANGED <<polVars, now, lastSet, repVars, lastCall, sysVars, mode, isLeader, flight,
                   call, lookups, fresh, writes, calls, netVars>>

HttpTick ==
    /\ now < MaxTime
    /\ now' = now + 1
    /\ res' = NoRes
    /\ resp' = NoResp
    /\ UNCHANGED <<polVars, store, lastSet, repVars, lastCall, sysVars, mode, isLeader,
                   flight, call, lookups, fresh, writes, calls, netVars>>

HttpNext ==
    \/ \E key \in Keys \cup {""}, value \in Values, ttl \in TTLParams,
          e \in {"nil", "node is not the leader"} :
          HttpSetRequest(key, value, ttl, e)
    \/ \E key \in Keys : HttpGetRequest(key)
    \/ HttpTick

SpecHttp == HttpInit /\ [][HttpNext]_vars

\* ------------------------------------------------------------------------
\* Goroutines calling one store at the same time, lock by lock
\* ------------------------------------------------------------------------
LockInit ==
    /\ PolIdle
    /\ \E cfg \in {<<0, "lru">>, <<1, "lru">>, <<1, "nil">>} : store = New(cfg[1], cfg[2])
    /\ now = 1
    /\ res = NoRes
    /\ lastSet = [k \in Keys |-> NoSet]
    /\ RepIdle
    /\ GwIdle
    /\ NetIdle

\* A goroutine calls Get, Set, Delete, deleteExpired, Snapshot or Restore.
LockCall(t, op, key) ==
    /\ thread[t].pc = "idle"
    /\ started < MaxOps
    /\ op \in {"get", "set", "delete"} <=> key # NoKey
    /\ started' = started + 1
    /\ thread' = [thread EXCEPT ![t] = [NoThread EXCEPT !.pc = "lock", !.op = op, !.key = key]]
    /\ UNCHANGED <<mu, pmu, flags, req, mode, isLeader, flight, call, resp, lookups, fresh,
                   writes, calls, lastCall, storeVars, repVars, netVars>>

\* s.mu.RLock() returns, or s.mu.Lock() has the writers' mutex.
LockAcquire(t) ==
    /\ thread[t].pc = "lock"
    /\ IF thread[t].op \in WriteOps
       THEN /\ CanAnnounce(mu)
            /\ mu' = Announce(mu, t)
            /\ thread' = [thread EXCEPT ![t].pc = "drain"]
       ELSE /\ CanRLock(mu)
            /\ mu' = RLock(mu, t)
            /\ thread' = [thread EXCEPT ![t].pc = "rheld"]
    /\ UNCHANGED <<pmu, started, flags, req, mode, isLeader, flight, call, resp, lookups,
                   fresh, writes, calls, lastCall, storeVars, repVars, netVars>>

\* s.mu.Lock() returns: the readers have left. What the call will ask of
\* the policy is settled by the store as it is now.
LockEnter(t) ==
    /\ thread[t].pc = "drain"
    /\ Drained(mu)
    /\ \E victim \in (IF thread[t].op = "set"
                      THEN VictimChoices(store, thread[t].key) ELSE {NoKey}) :
          thread' = [thread EXCEPT
                        ![t].pc = "held",
                        ![t].victim = victim,
                        ![t].calls = PolicyCalls(store, thread[t].op, thread[t].key,
                                                 victim, now)]
    /\ UNCHANGED <<mu, pmu, started, flags, req, mode, isLeader, flight, call, resp, lookups,
                   fresh, writes, calls, lastCall, storeVars, repVars, netVars>>

\* The next policy method locks p.mu.
PolicyEnter(t) ==
    /\ thread[t].pc = "held"
    /\ thread[t].calls # <<>>
    /\ pmu = "none"
    /\ pmu' = t
    /\ thread' = [thread EXCEPT ![t].pc = "pheld"]
    /\ UNCHANGED <<mu, started, flags, req, mode, isLeader, flight, call, resp, lookups,
                   fresh, writes, calls, lastCall, storeVars, repVars, netVars>>

\* The policy method returns: its deferred p.mu.Unlock().
PolicyLeave(t) ==
    /\ thread[t].pc = "pheld"
    /\ pmu' = "none"
    /\ thread' = [thread EXCEPT ![t].pc = "held", ![t].calls = Tail(@)]
    /\ UNCHANGED <<mu, started, flags, req, mode, isLeader, flight, call, resp, lookups,
                   fresh, writes, calls, lastCall, storeVars, repVars, netVars>>

\* The store call returns: its deferred Unlock or RUnlock.
LockReturn(t) ==
    /\ \/ /\ thread[t].pc = "held"
          /\ thread[t].calls = <<>>
          /\ store' = StoreCall(store, thread[t].op, thread[t].key, thread[t].victim, now)
          /\ mu' = Unlock(mu, t)
       \/ /\ thread[t].pc = "rheld"
          /\ store' = store
          /\ mu' = RUnlock(mu, t)
    /\ thread' = [thread EXCEPT ![t] = NoThread]
    /\ UNCHANGED <<pmu, started, flags, req, mode, isLeader, flight, call, resp, lookups,
                   fresh, writes, calls, lastCall, polVars, now, res, lastSet, repVars, netVars>>

\* A goroutine inside a store call takes its next step.
LockProgress ==
    \E t \in Threads :
        LockAcquire(t) \/ LockEnter(t) \/ PolicyEnter(t) \/ PolicyLeave(t) \/ LockReturn(t)

LockNext ==
    \/ \E t \in Threads, op \in StoreOps, key \in Keys \cup {NoKey} : LockCall(t, op, key)
    \/ \E t \in Threads : LockAcquire(t)
    \/ \E t \in Threads : LockEnter(t)
    \/ \E t \in Threads : PolicyEnter(t)
    \/ \E t \in Threads : PolicyLeave(t)
    \/ \E t \in Threads : LockReturn(t)

\* sync.Mutex and sync.RWMutex hand the lock to a goroutine that has waited
\* long enough (starvation mode), and a goroutine that can run does.
SpecLock ==
    /\ LockInit
    /\ [][LockNext]_vars
    /\ \A t \in Threads :
        /\ SF_vars(LockAcquire(t))
        /\ WF_vars(LockEnter(t))
        /\ WF_vars(PolicyEnter(t))
        /\ WF_vars(PolicyLeave(t))
        /\ WF_vars(LockReturn(t))

\* ------------------------------------------------------------------------
\* Snapshot round trip: a store in any state is serialised and the bytes
\* are restored into an empty store
\* ------------------------------------------------------------------------
\* The values Store.Set accepts: any Go string.
RawValues == Values \cup {InvalidBytes}

StoreStates(capacity, kind) ==
    {[New(capacity, kind) EXCEPT !.items = m] :
        m \in UNION {[S -> [value : RawValues, expiration : Expirations]] :
                        S \in SUBSET Keys}}

RoundInit ==
    /\ \E cfg \in Configs :
          \E s \in StoreStates(cfg[1], cfg[2]) :
              rep = [r \in Replicas |-> IF r = 1 THEN s ELSE New(cfg[1], cfg[2])]
    /\ log = <<>>
    /\ applied = [r \in Replicas |-> 0]
    /\ phase = "pre"
    /\ HandleIdle
    /\ now \in 1..MaxTime
    /\ StoreIdle
    /\ GwIdle
    /\ NetIdle

\* Store.Snapshot of the first store, Store.Restore of its bytes into the
\* second.
RoundTrip ==
    /\ phase = "pre"
    /\ phase' = "post"
    /\ rep' = [rep EXCEPT ![2] = Restore(rep[2], Snapshot(rep[1]))]
    /\ UNCHANGED <<log, applied, now, handle, sink, ret, storeVars, gwVars, netVars>>

RoundNext == RoundTrip

SpecRound == RoundInit /\ [][RoundNext]_vars

\* ------------------------------------------------------------------------
\* The request gateway on one node: callers' Gets, committed writes and
\* changes of leadership interleave
\* ------------------------------------------------------------------------
Modes == {"strong", "eventual"}

GwInit ==
    /\ mode \in Modes
    /\ isLeader = TRUE
    /\ flight = [k \in Keys |-> FALSE]
    /\ call = [c \in Callers |-> NoCall]
    /\ resp = NoResp
    /\ lookups = [k \in Keys |-> 0]
    /\ fresh = [k \in Keys |-> 0]
    /\ writes = 0
    /\ calls = 0
    /\ lastCall = NoSvcCall
    /\ SysIdle
    /\ now = 1
    /\ StoreIdle
    /\ RepIdle
    /\ NetIdle

\* A handler calls the gateway's Get: leadership is verified in strong mode,
\* then the call joins the lookup in flight for its key or starts one.
GwGetStart(c, key) ==
    /\ call[c].pc = "idle"
    /\ calls < MaxCalls
    /\ calls' = calls + 1
    /\ LET begun == [NoCall EXCEPT !.key = key, !.leaderAtStart = isLeader]
       IN IF NeedsVerify(mode) /\ VerifyLeader(isLeader) # "nil"
          THEN /\ call' = [call EXCEPT ![c] =
                              [begun EXCEPT !.pc = "done", !.out = ConsistencyError]]
               /\ UNCHANGED <<flight, fresh>>
          ELSE /\ fresh' = [fresh EXCEPT ![key] = IF flight[key] THEN @ ELSE @ + 1]
               /\ IF Coalesces(flight, key)
                  THEN /\ call' = [call EXCEPT ![c] = [begun EXCEPT !.pc = "wait"]]
                       /\ UNCHANGED flight
                  ELSE /\ call' = [call EXCEPT ![c] = [begun EXCEPT !.pc = "lookup"]]
                       /\ flight' = [flight EXCEPT ![key] = TRUE]
    /\ resp' = NoResp
    /\ UNCHANGED <<lastCall, sysVars, mode, isLeader, lookups, writes, storeVars, repVars, netVars>>

\* The first caller of a group reads the store.
GwLookup(c) ==
    /\ call[c].pc = "lookup"
    /\ call' = [call EXCEPT ![c].pc = "finish",
                            ![c].out = ServiceGetResult(GetResult(store, call[c].key, now))]
    /\ store' = Get(store, call[c].key, now)
    /\ lookups' = [lookups EXCEPT ![call[c].key] = @ + 1]
    /\ resp' = NoResp
    /\ UNCHANGED <<polVars, lastCall, now, res, lastSet, sysVars, mode, isLeader, flight, fresh, writes, calls,
                   repVars, netVars>>

\* A group that completes without waking the callers waiting on it.
GwFinishLeavesWaiters(c) ==
    /\ call[c].pc = "finish"
    /\ flight' = [flight EXCEPT ![call[c].key] = FALSE]
    /\ call' = [call EXCEPT ![c].pc = "done"]
    /\ resp' = NoResp
    /\ UNCHANGED <<lastCall, sysVars, mode, isLeader, lookups, fresh, writes, calls, storeVars,
                   repVars, netVars>>

\* The group completes: its result goes to every caller waiting on the key
\* and the key leaves the in-flight map.
GwFinish(c) ==
    /\ call[c].pc = "finish"
    /\ flight' = [flight EXCEPT ![call[c].key] = FALSE]
    /\ call' = [d \in Callers |->
                  IF d = c THEN [call[d] EXCEPT !.pc = "done"]
                  ELSE IF call[d].pc = "wait" /\ call[d].key = call[c].key
                  THEN [call[d] EXCEPT !.pc = "done", !.out = call[c].out]
                  ELSE call[d]]
    /\ resp' = NoResp
    /\ UNCHANGED <<lastCall, sysVars, mode, isLeader, lookups, fresh, writes, calls, storeVars, repVars, netVars>>

\* The handler translates the gateway's outcome for the client.
GwRespond(c, via) ==
    /\ call[c].pc = "done"
    /\ resp' = Translate(via, call[c].out)
    /\ call' = [call EXCEPT ![c] = NoCall]
    /\ UNCHANGED <<lastCall, sysVars, mode, isLeader, flight, lookups, fresh, writes, calls, storeVars, repVars, netVars>>

\* The gateway's Set or Delete on the leader: the entry is committed and
\* applied by the local FSM before the call returns success.
GwWrite(c) ==
    /\ isLeader
    /\ writes < MaxWrites
    /\ LET data == IF c.op = SetOp THEN ServiceSet(c.key, c.value, c.ttl)
                   ELSE ServiceDelete(c.key)
       IN \E victim \in ApplyVictims(store, data) :
            store' = Apply(store, data, now, victim)
    /\ writes' = writes + 1
    /\ call' = [d \in Callers |->
                  IF call[d].pc # "idle" /\ call[d].key = c.key
                  THEN [call[d] EXCEPT !.overwritten = TRUE]
                  ELSE call[d]]
    /\ resp' = NoResp
    /\ UNCHANGED <<polVars, lastCall, now, res, lastSet, sysVars, mode, isLeader, flight, lookups, fresh,
                   calls, repVars, netVars>>

\* The node loses or regains contact with the majority.
LeaderChange ==
    /\ isLeader' = ~isLeader
    /\ resp' = NoResp
    /\ UNCHANGED <<lastCall, sysVars, mode, flight, call, lookups, fresh, writes, calls, storeVars,
                   repVars, netVars>>

\* The /set handler passes a ttl of 0.
GwCommands == {c \in Commands : c.ttl = 0}

GwNext ==
    \/ \E c \in Callers, key \in Keys : GwGetStart(c, key)
    \/ \E c \in Callers : GwLookup(c)
    \/ \E c \in Callers : GwFinish(c)
    \/ \E c \in Callers, via \in Vias : GwRespond(c, via)
    \/ \E c \in GwCommands : GwWrite(c)
    \/ LeaderChange

SpecGw == GwInit /\ [][GwNext]_vars

\* The Gets of the gateway on their own: a group's leader that can read the
\* store does, and a group whose lookup returned completes.
FlightNext ==
    \/ \E c \in Callers, key \in Keys : GwGetStart(c, key)
    \/ \E c \in Callers : GwLookup(c)
    \/ \E c \in Callers : GwFinish(c)
    \/ \E c \in Callers, via \in Vias : GwRespond(c, via)
    \/ LeaderChange

SpecFlight ==
    /\ GwInit
    /\ [][FlightNext]_vars
    /\ \A c \in Callers : WF_vars(GwLookup(c)) /\ WF_vars(GwFinish(c))

\* ------------------------------------------------------------------------
\* Properties of the store
\* ------------------------------------------------------------------------
Resident(s) == DOMAIN s.items

\* C1: with capacity C > 0 and an eviction policy, the number of resident
\* items is at most C after every completed operation.
CapacityBound ==
    (store.capacity > 0 /\ store.policy.kind # "nil")
        => Cardinality(Resident(store)) <= store.capacity

\* C2: after every completed operation the keys the eviction policy tracks
\* are exactly the keys resident in the map.
PolicyTracksResident ==
    store.policy.kind # "nil" => Tracked(store.policy) = Resident(store)

\* What a Get of key returns at time now, given that it must report the
\* value of the last Set exactly when live holds.
GetAgrees(key, live) ==
    GetResult(store, key, now) =
        IF live THEN [value |-> lastSet[key].value, found |-> TRUE]
        ELSE [value |-> "", found |-> FALSE]

ResAgrees(live) ==
    (res.found <=> live) /\ res.value = (IF live THEN lastSet[res.key].value ELSE "")

\* C3 as stated: after set(k, v, ttl) at time s with no later set, delete or
\* eviction of k, get(k) at time t returns (v, true) iff ttl = 0 or s + ttl > t.
TTLStrict ==
    /\ \A k \in Keys :
        lastSet[k].valid =>
            GetAgrees(k, lastSet[k].ttl = 0 \/ lastSet[k].at + lastSet[k].ttl > now)
    /\ (res.op = "get" /\ lastSet[res.key].valid) =>
            ResAgrees(lastSet[res.key].ttl = 0
                      \/ lastSet[res.key].at + lastSet[res.key].ttl > now)

\* C3 amended: after set(k, v, ttl) at time s with no later set, delete,
\* eviction or restore of k, get(k) at time t >= s returns (v, true) iff
\* ttl <= 0 or s + ttl >= t: a negative ttl never expires and the item is
\* still served at t = s + ttl.
TTLInclusive ==
    /\ \A k \in Keys :
        lastSet[k].valid =>
            GetAgrees(k, lastSet[k].ttl <= 0 \/ lastSet[k].at + lastSet[k].ttl >= now)
    /\ (res.op = "get" /\ lastSet[res.key].valid) =>
            ResAgrees(lastSet[res.key].ttl <= 0
                      \/ lastSet[res.key].at + lastSet[res.key].ttl >= now)

\* A Get at the very deadline of a positive ttl, t = s + ttl, served the
\* value of the Set.
TTLAtDeadline ==
    /\ res.op = "get"
    /\ lastSet[res.key].valid
    /\ lastSet[res.key].ttl > 0
    /\ now = lastSet[res.key].at + lastSet[res.key].ttl
    /\ res.found
    /\ res.value = lastSet[res.key].value

\* C10: after restore the resident key set is exactly the key set of the
\* snapshot.
RestoreReplaces == res.op = "restore" => Resident(store) = res.keys

\* C30: in a running node, every item whose expiration has passed is
\* eventually out of the map (or live again, once set anew).
ExpiredIsSwept ==
    \A key \in Keys :
        (key \in DOMAIN store.items /\ Expired(store.items[key], now))
            ~> (key \notin DOMAIN store.items \/ ~Expired(store.items[key], now))

\* C31: with capacity 0 no set ever removes another key: a resident key
\* leaves the map only by a delete of that key or by a sweep after it
\* expired, so every key set and not since deleted or swept is resident.
UnboundedNeverEvicts ==
    [][store.capacity = 0 =>
        \A k \in Resident(store) \ Resident(store') :
            \/ Expired(store.items[k], now)
            \/ store' = Delete(store, k)]_vars

\* A store of capacity 0 that holds every key, each put there by a Set.
UnboundedHoldsAll ==
    /\ store.capacity = 0
    /\ Resident(store) = Keys
    /\ \A k \in Keys : lastSet[k].valid /\ store.items[k].value = lastSet[k].value

\* C32: a store created without WithPolicy has a nil policy and performs no
\* eviction: in a node started with max_items > 0 and eviction_policy none
\* no set ever removes another key, a key leaves the map only by its delete.
NoneNeverEvicts ==
    /\ [](ToLower[flags.evictionPol] = "none" => store.policy.kind = "nil")
    /\ [][(flags.maxItems > 0 /\ ToLower[flags.evictionPol] = "none") =>
            \A k \in Resident(store) \ Resident(store') : store' = Delete(store, k)]_vars

\* C34: a set of a key that is not resident, on a store of capacity C > 0
\* that holds C items, removes exactly one key, the one select_victim names,
\* notifies on_remove(victim) and then on_add(key), and ends with the key
\* resident; with LRU a get that finds its key keeps it from being the
\* victim while another key is tracked, with FIFO a get leaves the victim
\* as it was.
FullSetEvictsVictim ==
    /\ [][\A k \in Keys :
            (/\ k \notin Resident(store)
             /\ k \in Resident(store')
             /\ res'.op # "restore"
             /\ store.capacity > 0
             /\ Cardinality(Resident(store)) = store.capacity
             /\ store.policy.kind # "nil")
            => \E victim \in SelectVictim(store.policy) :
                  /\ Resident(store) \ Resident(store') = {victim}
                  /\ store'.policy = OnAdd(OnRemove(store.policy, victim), k)]_vars
    /\ [][(res'.op = "get" /\ res'.found /\ store.policy.kind = "lru"
           /\ Tracked(store'.policy) # {res'.key})
            => res'.key \notin SelectVictim(store'.policy)]_vars
    /\ [][(res'.op = "get" /\ store.policy.kind = "fifo")
            => SelectVictim(store'.policy) = SelectVictim(store.policy)]_vars

\* C35: a set on a resident key overwrites its value and expiration,
\* notifies the policy with on_access only, evicts nothing and leaves the
\* resident keys and every other item as they were, also at capacity.
OverwriteTouchesOnlyKey ==
    [][\A k \in Keys :
        (k \in Resident(store) /\ lastSet'[k].valid /\ lastSet'[k] # lastSet[k])
        => /\ store'.items[k] =
                [value |-> lastSet'[k].value,
                 expiration |-> IF lastSet'[k].ttl > 0 THEN now + lastSet'[k].ttl ELSE 0]
           /\ Resident(store') = Resident(store)
           /\ \A j \in Resident(store) \ {k} : store'.items[j] = store.items[j]
           /\ store'.policy = OnAccess(store.policy, k)]_vars

\* A store at capacity whose only key was set anew since the clock last
\* moved, after the policy had counted a use of it.
OverwrittenAtCapacity ==
    /\ store.capacity = 1
    /\ store.policy.kind = "lfu"
    /\ \E k \in Keys :
        /\ Resident(store) = {k}
        /\ lastSet[k].valid
        /\ lastSet[k].at = now
        /\ now > 1
        /\ store.items[k].value = "v2"
        /\ LFUFrequency(store.policy.pq, k) = 2
    /\ res.op = "none"

\* C36: a get on a resident but expired key returns absent and changes
\* neither the map nor the policy; a get on any key never changes the map.
GetLeavesExpired ==
    [][res'.op = "get" =>
        /\ store'.items = store.items
        /\ (res'.key \in Resident(store) /\ Expired(store.items[res'.key], now))
            => (store' = store /\ ~res'.found /\ res'.value = "")]_vars

\* A get has just found its key resident and expired.
GotExpired ==
    /\ res.op = "get"
    /\ res.key \in Resident(store)
    /\ Expired(store.items[res.key], now)
    /\ ~res.found
    /\ Cardinality(Tracked(store.policy)) = 2

\* ------------------------------------------------------------------------
\* Properties of the eviction policies
\* ------------------------------------------------------------------------
\* C18: after OnRemove(k), SelectVictim does not return k until k is added
\* again.
RemovedNotVictim == last.op = "select" => last.ret \notin removed

\* C19: OnAdd(k) on a key that is already tracked leaves the policy in the
\* state OnAccess(k) would, with k tracked once.
AddTrackedIsAccess ==
    [][(last'.op = "add" /\ last'.key \in added) => pol' = OnAccess(pol, last'.key)]_vars

\* C20: SelectVictim returns a key that was added and not since removed,
\* returns none exactly when there is no such key, and leaves the policy
\* state unchanged.
VictimIsTracked ==
    /\ [](last.op = "select" =>
            IF added = {} THEN last.ret = NoKey ELSE last.ret \in added)
    /\ [][last'.op = "select" => pol' = pol]_vars

\* The tracked keys in the order of their latest OnAdd or OnAccess, oldest
\* first.
TrackedByTouch == SelectSeq(hist.touches, LAMBDA k : k \in added)

\* C21: on the LRU policy, SelectVictim returns the tracked key whose latest
\* OnAdd or OnAccess is the oldest among the tracked keys.
LRUVictimIsOldestTouch ==
    (last.op = "select" /\ pol.kind = "lru" /\ added # {}) =>
        last.ret = Head(TrackedByTouch)

\* All three keys are tracked, and the victim is not the first one inserted:
\* a later touch moved that one away from the back.
LRUVictimAfterTouch ==
    /\ last.op = "select"
    /\ pol.kind = "lru"
    /\ added = PolKeys
    /\ last.ret # Head(hist.arrivals)
    /\ last.ret = Head(TrackedByTouch)

\* C22: on the FIFO policy, SelectVictim returns the tracked key inserted
\* first, and neither OnAccess nor OnAdd of a tracked key changes the order.
FIFOVictimIsFirstIn ==
    /\ []((last.op = "select" /\ pol.kind = "fifo" /\ added # {}) =>
            last.ret = Head(hist.arrivals))
    /\ [][(/\ pol.kind = "fifo"
           /\ \/ last'.op = "access"
              \/ last'.op = "add" /\ last'.key \in added) => pol'.order = pol.order]_vars

\* The victim is the key touched last of all: it was inserted first, and its
\* later OnAdd or OnAccess did not save it.
FIFOVictimTouchedLast ==
    /\ last.op = "select"
    /\ pol.kind = "fifo"
    /\ added = PolKeys
    /\ last.ret = Head(hist.arrivals)
    /\ last.ret = hist.touches[Len(hist.touches)]

\* C23: on the LFU policy, SelectVictim returns a tracked key whose use
\* count (1 at insertion, plus 1 for each later OnAccess or OnAdd while it
\* stays tracked) is minimal among the tracked keys.
LFUVictimIsLeastUsed ==
    (last.op = "select" /\ pol.kind = "lfu" /\ added # {}) =>
        /\ last.ret \in added
        /\ \A k \in added : hist.uses[last.ret] <= hist.uses[k]

\* All three keys are tracked with different use counts among them, and the
\* victim is not the first one inserted.
LFUVictimNotFirstIn ==
    /\ last.op = "select"
    /\ pol.kind = "lfu"
    /\ added = PolKeys
    /\ last.ret # Head(hist.arrivals)
    /\ hist.uses[Head(hist.arrivals)] > hist.uses[last.ret]

\* ------------------------------------------------------------------------
\* Properties of the HTTP API
\* ------------------------------------------------------------------------
\* C33: a /set request with ttl=S submits a Set command with a TTL of S
\* seconds, so that a get more than S seconds after it returns not-found; a
\* /set request without ttl stores an item that never expires.
TTLParamExpires ==
    /\ \A k \in Keys :
        req[k].valid =>
            IF req[k].ttl = ""
            THEN GetResult(store, k, now) = [value |-> req[k].value, found |-> TRUE]
            ELSE now > req[k].at + ParseInt(req[k].ttl) => ~GetResult(store, k, now).found
    /\ (lastCall.op = "set" /\ lastCall.err = "nil") =>
            lastCall.cmd.ttl = ParseInt(req[lastCall.cmd.key].ttl)
    /\ (res.op = "get" /\ req[res.key].valid /\ req[res.key].ttl # ""
        /\ now > req[res.key].at + ParseInt(req[res.key].ttl)) => resp.status = 404

\* ------------------------------------------------------------------------
\* Properties of replication and snapshots
\* ------------------------------------------------------------------------
\* C4: two replicas that have applied the same committed entries in the
\* same order answer every eventual-mode get alike, whatever local gets
\* they served and whenever each applied the entries.
ReplicasAgree ==
    applied[1] = applied[2] =>
        \A k \in Keys : GetResult(rep[1], k, now) = GetResult(rep[2], k, now)

\* C5: a store restored from the snapshot taken after the first N entries
\* and then given entries N+1..M holds the same keys, values and
\* expirations as the store that applied entries 1..M from empty.
SnapshotReplayAgrees == phase = "post" => rep[2].items = rep[1].items

\* C11: restoring the snapshot of a store S into an empty store yields a
\* store in which every unexpired key of S has the value and expiration it
\* has in S, and which holds no key that S does not hold.
RoundTripKeeps ==
    phase = "post" =>
        /\ \A k \in Resident(rep[1]) :
              ~Expired(rep[1].items[k], now) =>
                  (k \in Resident(rep[2]) /\ rep[2].items[k] = rep[1].items[k])
        /\ Resident(rep[2]) \subseteq Resident(rep[1])

\* C12: the bytes a snapshot handle persists are the store state at the
\* moment FSM.Snapshot was called, whatever entries are applied between
\* that call and Persist.
PersistedIsSnapshotState == sink.closed => sink.bytes = handle.atCall

\* C15: Persist ends the sink in exactly one way: closed and not cancelled
\* when the write succeeds; cancelled, not closed and the write error
\* returned when it fails. Release changes no store state.
PersistEndsSinkOnce ==
    /\ [](sink # NoSink =>
            IF sink.wrote
            THEN sink.closed /\ ~sink.cancelled
            ELSE sink.cancelled /\ ~sink.closed /\ sink.err = "write error")
    /\ [][(~handle.released /\ handle'.released) => (rep' = rep /\ sink' = sink)]_vars

\* A Persist whose write failed has cancelled the sink and returned the
\* write error, and the handle was released over a non-empty store.
PersistFailedAndReleased ==
    /\ sink.cancelled
    /\ ~sink.closed
    /\ sink.err = "write error"
    /\ handle.released
    /\ Resident(rep[1]) # {}

\* C13: applying the same committed entry twice in succession leaves the
\* store (keys, values, expirations) and the policy state as applying it
\* once does.
ApplyTwiceIsOnce == phase = "post" => rep[2] = rep[1]

\* What a step that applies the entry data must do: an entry that is no
\* command leaves the store and its policy alone and returns an error; a
\* command returns nil and takes effect.
AppliedAsItShould(data) ==
    IF data \in BadEntries
    THEN rep' = rep /\ ret' \notin {"nil", "none"}
    ELSE LET c == Unmarshal(data)
         IN /\ ret' = "nil"
            /\ c.op = SetOp =>
                  (c.key \in Resident(rep'[1]) /\ rep'[1].items[c.key].value = c.value)
            /\ c.op = DeleteOp => c.key \notin Resident(rep'[1])

\* C14: Apply on bytes that do not decode to a command, or whose op is
\* neither SET nor DELETE, returns an error and leaves the store and the
\* policy state unchanged; entries applied afterwards are processed
\* normally.
BadEntryRejected ==
    [][applied'[1] = applied[1] + 1 => AppliedAsItShould(log'[Len(log')])]_vars

\* An entry that is no command was applied, and the Set applied after it
\* took effect.
GoodAfterBad ==
    /\ Len(log) = 2
    /\ log[1] \in BadEntries
    /\ log[2] \in GoodEntries
    /\ ret = "nil"
    /\ Resident(rep[1]) # {}

\* What a step that applies the entry data must do when data encodes the
\* command c: a Set is one store.Set with the command's key, value and ttl,
\* a Delete one store.Delete, nil is returned, and a get of the key at once
\* returns the value, or nothing after a Delete.
DispatchedOnce(data, c) ==
    data = Marshal(c) =>
        /\ ret' = "nil"
        /\ c.op = SetOp =>
            /\ \E victim \in VictimChoices(rep[1], c.key) :
                    rep'[1] = Set(rep[1], c.key, c.value, c.ttl, now, victim)
            /\ GetResult(rep'[1], c.key, now') = [value |-> c.value, found |-> TRUE]
        /\ c.op = DeleteOp =>
            /\ rep'[1] = Delete(rep[1], c.key)
            /\ ~GetResult(rep'[1], c.key, now').found

\* C38: Apply on a validly encoded Set(k, v, ttl) entry calls store.Set(k,
\* v, ttl) once and returns nil, after which get(k) returns v; Apply on a
\* Delete(k) entry calls store.Delete(k) once and returns nil, after which
\* get(k) is absent.
ApplyDispatchesOnce ==
    [][applied'[1] = applied[1] + 1 =>
        /\ \A k \in Keys, v \in FeedValues, ttl \in TTLs :
                DispatchedOnce(log'[Len(log')], Command(SetOp, k, v, ttl))
        /\ \A k \in Keys : DispatchedOnce(log'[Len(log')], Command(DeleteOp, k, "", 0))]_vars

\* A Set with a ttl was applied, the key is resident with the deadline the
\* ttl gives, and time has passed since an earlier Delete was applied.
SetAppliedWithTTL ==
    /\ Len(log) = 2
    /\ log[1] = ServiceDelete("b")
    /\ log[2] = ServiceSet("a", "v1", 1)
    /\ ret = "nil"
    /\ now = 2
    /\ "a" \in Resident(rep[1])
    /\ rep[1].items["a"] = [value |-> "v1", expiration |-> 3]

\* ------------------------------------------------------------------------
\* Properties of the consensus port
\* ------------------------------------------------------------------------
\* Accept read the connection's first byte.
FirstByteRead(c) == conns[c].peek = "byte"

\* C24: a connection whose first byte is one of G, H, P, C, O, D is answered
\* with an HTTP/1.1 200 OK response with body ok, is then closed, and is
\* never returned by Accept.
HTTPIsAnsweredAndDropped ==
    \A c \in Conns :
        (FirstByteRead(c) /\ conns[c].sent[1] \in HTTPLetters) =>
            /\ conns[c].wrote.statusLine = "HTTP/1.1 200 OK"
            /\ conns[c].wrote.body = "ok"
            /\ conns[c].st = "closed"
            /\ ~conns[c].returned
            /\ acc.ret.conn # c

\* A DELETE request was answered and dropped, and Accept went on to return
\* the other connection.
DeleteAnsweredOtherReturned ==
    \E c, d \in Conns :
        /\ FirstByteRead(c)
        /\ conns[c].sent[1] = "D"
        /\ conns[c].received = HealthResponse
        /\ conns[c].st = "closed"
        /\ conns[d].returned

\* What a reader of the connection has been given or will be given: the
\* bytes handed over, the bytes held back, the bytes still in the socket.
Delivered(c) ==
    conns[c].got \o conns[c].peeked
        \o SubSeq(conns[c].sent, conns[c].pos + 1, Len(conns[c].sent))

\* C25: a connection whose first byte was read and is not one of the six
\* letters is returned by Accept, and the bytes read from it are the bytes
\* the peer sent, in order, from the first byte on, whatever the sizes of
\* the read buffers.
OtherIsReturnedIntact ==
    \A c \in Conns :
        (FirstByteRead(c) /\ conns[c].sent[1] \notin HTTPLetters) =>
            /\ conns[c].returned
            /\ conns[c].st = "surfaced"
            /\ Delivered(c) = conns[c].sent

\* The transport has read every byte of a two-byte message through the
\* returned connection.
AllBytesRead ==
    \E c \in Conns :
        /\ conns[c].returned
        /\ Len(conns[c].sent) >= 2
        /\ conns[c].got = conns[c].sent

\* C26: when the read of the first byte times out or fails, the connection
\* is closed and never returned, the loop goes on to the next connection,
\* and Accept returns an error only when the listener's accept fails.
FailedPeekIsDropped ==
    /\ [](\A c \in Conns :
            conns[c].peek \in ReadErrors => (conns[c].st = "closed" /\ ~conns[c].returned))
    /\ [][\A c \in Conns :
            (conns[c].peek = "none" /\ conns'[c].peek \in ReadErrors) =>
                (acc'.pc = "accept" /\ acc'.ret = acc.ret)]_vars
    /\ [][(acc'.ret # acc.ret /\ acc'.ret.err # "nil") =>
            (acc.pc = "accept" /\ acc'.ret.err \in ListenerErrors /\ conns' = conns)]_vars

\* One connection's peek timed out, and Accept has since returned the other
\* connection without an error.
TimedOutThenReturned ==
    \E c, d \in Conns :
        /\ conns[c].peek = "i/o timeout"
        /\ conns[d].returned
        /\ acc.ret = [conn |-> d, err |-> "nil"]

\* C27: while the peek of a peer that has sent nothing is pending, another
\* connection that has sent its first byte can be accepted and classified.
SlowPeerDelaysOnlyItself ==
    \A c, d \in Conns :
        (/\ conns[c].st = "peeking"
         /\ conns[c].sent = <<>>
         /\ conns[d].st = "backlog"
         /\ conns[d].sent # <<>>) => ENABLED ListenerAccept(d)

\* ------------------------------------------------------------------------
\* Properties of the sharding Map
\* ------------------------------------------------------------------------
Sorted(s) == \A i \in 1..(Len(s) - 1) : s[i] <= s[i + 1]

\* The entry that owns a hash: the smallest entry at or above it, or the
\* smallest entry of all when there is none.
OwningEntry(m, h) ==
    LET atOrAbove == {x \in ElemsOf(m.keys) : x >= h}
        from == IF atOrAbove = {} THEN ElemsOf(m.keys) ELSE atOrAbove
    IN CHOOSE x \in from : \A y \in from : x <= y

\* C28: the hash vector is sorted ascending after any Add and Remove, Get
\* returns the node of the first entry with hash >= H(key), wrapping to the
\* smallest entry, and Get returns none exactly when the ring has no entry.
RingSortedGetFirstAtLeast ==
    /\ Sorted(ring.keys)
    /\ lastRing.op = "get" =>
          /\ lastRing.ret = NoKey <=> ring.keys = <<>>
          /\ ring.keys # <<>> =>
                lastRing.ret = ring.hashMap[OwningEntry(ring, hash[lastRing.key])]

\* Get wrapped: the key hashes above every entry, two nodes are on the ring,
\* and the answer is the node of the smallest entry.
GetWrapped ==
    /\ lastRing.op = "get"
    /\ ring.keys # <<>>
    /\ \A i \in 1..Len(ring.keys) : ring.keys[i] < hash[lastRing.key]
    /\ Cardinality({ring.hashMap[x] : x \in DOMAIN ring.hashMap}) >= 2
    /\ lastRing.ret = ring.hashMap[ring.keys[1]]

\* C29: Remove(n) changes Get(k) only for keys Get gave to n before; every
\* key of another node keeps its owner, and no key is owned by n afterwards.
RemoveMovesOnlyOwn ==
    lastRing.op = "remove" =>
        \A k \in RingKeys :
            /\ lastRing.owners[k] # lastRing.key =>
                  MapGet(ring, hash, k) = lastRing.owners[k]
            /\ MapGet(ring, hash, k) # lastRing.key

\* The removed node owned the key, and the key went to a node that remains.
RemovedOwnerKeyMoved ==
    /\ lastRing.op = "remove"
    /\ \E k \in RingKeys :
          /\ lastRing.owners[k] = lastRing.key
          /\ MapGet(ring, hash, k) \in Nodes \ {lastRing.key}
    /\ Cardinality({ring.hashMap[x] : x \in DOMAIN ring.hashMap}) >= 2

\* C39: for a node n that is not on the ring, Add(n) followed by Remove(n)
\* restores the ring: every Get(k) returns what it returned before Add(n)
\* and every other node keeps all its virtual entries, also when a hash of
\* n equals a hash of another node.
AddRemoveRestores ==
    [][(/\ lastRing.op = "add"
        /\ lastRing.fresh
        /\ lastRing'.op = "remove"
        /\ lastRing'.key = lastRing.key)
        => /\ \A k \in RingKeys :
                MapGet(ring', hash, k) = MapGet(lastRing.before, hash, k)
           /\ ring'.hashMap = lastRing.before.hashMap]_vars

\* ------------------------------------------------------------------------
\* Properties of the gateway
\* ------------------------------------------------------------------------
\* C16: the gateway's set and delete encode one command, hand it to
\* consensus exactly once and return what consensus returned; they never
\* touch the local store, which changes only when the FSM applies a
\* committed entry.
WriteGoesThroughConsensus ==
    /\ [](lastCall.op \in {"set", "delete"} =>
            /\ Len(lastCall.submitted) = 1
            /\ UnmarshalError(lastCall.submitted[1]) = "nil"
            /\ Unmarshal(lastCall.submitted[1]) = lastCall.cmd
            /\ lastCall.err = lastCall.consensusErr)
    /\ [][/\ lastCall' # lastCall => rep' = rep
          /\ rep' # rep => (applied'[1] = applied[1] + 1 /\ lastCall' = lastCall)]_vars

\* A Set that consensus refused returned the refusal, after an earlier
\* write had been committed and applied.
RefusedSetReturnsError ==
    /\ lastCall.op = "set"
    /\ lastCall.consensusErr = "node is not the leader"
    /\ lastCall.err = "node is not the leader"
    /\ Resident(rep[1]) # {}

\* C17: a gateway operation invoked with an already-cancelled context
\* returns an error.
CancelledIsError == lastCall.ctx = "cancelled" => lastCall.err # "nil"

CoalescedStep ==
    \A c \in Callers :
        /\ (call[c].pc = "idle" /\ call'[c].pc = "lookup") => ~flight[call'[c].key]
        /\ call[c].pc = "wait" => call'[c].pc \in {"wait", "done"}
        /\ (call[c].pc = "wait" /\ call'[c].pc = "done") =>
                \E l \in Callers :
                    /\ call[l].pc = "finish"
                    /\ call[l].key = call[c].key
                    /\ call'[c].out = call[l].out

VerifyFailureDistinct ==
    resp.cause = ConsistencyError.err =>
        /\ resp.via = "http" => resp.status = 500
        /\ resp.via = "rpc" => ~(resp.found = FALSE /\ resp.err = "nil")

\* The callers of the single-flight group of key: the one looking up and
\* those waiting on it.
GroupOf(key) == {c \in Callers : call[c].key = key /\ call[c].pc \in {"lookup", "finish", "wait"}}

\* A step that completes a group wakes every caller waiting on it with the
\* group's result and takes the key out of the in-flight map; a Get that
\* begins while no lookup for its key is in flight does not wait.
GroupCompletionStep ==
    /\ \A l \in Callers :
        (call[l].pc = "finish" /\ call'[l].pc = "done")
        => /\ ~flight'[call[l].key]
           /\ \A c \in Callers :
                (call[c].pc = "wait" /\ call[c].key = call[l].key)
                => (call'[c].pc = "done" /\ call'[c].out = call[l].out)
    /\ \A c \in Callers :
        (call[c].pc = "idle" /\ call'[c].pc # "idle" /\ ~flight[call'[c].key])
        => call'[c].pc \in {"lookup", "done"}

StoreCallsReturn ==
    /\ [](\A t \in Threads :
            pmu = t => (mu.writer = t /\ thread[t].pc = "pheld"))
    /\ []((\E t \in Threads : thread[t].pc # "idle") => ENABLED LockProgress)
    /\ \A t \in Threads : (thread[t].pc # "idle") ~> (thread[t].pc = "idle")

\* A Set is evicting under the store lock, inside the policy, while another
\* goroutine waits for the store lock and a third call has returned.
EvictingWhileOthersWait ==
    /\ thread["t1"].pc = "pheld"
    /\ thread["t1"].op = "set"
    /\ Len(thread["t1"].calls) = 3
    /\ thread["t2"].pc = "lock"
    /\ started = 3

====
